---------------------------- MODULE Spec2Model ----------------------------
(***************************************************************************)
(* JSON editor: the card extractor (JsonParser.parseJsonToCards) and the   *)
(* preview renderer (JsonParser.formatJsonPreview).                        *)
(*                                                                         *)
(* Text is a sequence of characters; a character is a one-character TLA+   *)
(* string, except NonLatin1, which stands for one character whose code     *)
(* point is above 255.  A string literal that the source writes whole and  *)
(* that is only ever compared with other literals (a warning, a card type) *)
(* is a TLA+ string.                                                       *)
(*                                                                         *)
(* A JSON value is a record tagged by k: "null", "bool" (b), "num" (n),    *)
(* "str" (s), "arr" (items) or "obj" (fields, the sequence of key/value    *)
(* pairs in insertion order, the keys distinct).                           *)
(***************************************************************************)
EXTENDS Integers, Sequences, FiniteSets, TLC

VARIABLES
    jsonContent,   \* the document handed to parseJsonToCards
    fileName,      \* the label handed to parseJsonToCards
    parsed,        \* what parseJsonToCards gave back (status "none" before the call)
    parsedAgain,   \* what a second call on the same document and label gave back
    content,       \* the value handed to formatJsonPreview
    maxLines,      \* the line budget handed to formatJsonPreview
    preview,       \* what formatJsonPreview gave back (status "none" before the call)
    walk,          \* where a call of parseJsonToCards that is followed step by step
                   \* stands: its pc, the stack of extractCards calls, the calls
                   \* made so far and the nodes whose cards were pushed so far
    render,        \* where a call of formatJsonPreview that is followed step by
                   \* step stands: its pc, and the counter and bound of its loop
    component,     \* the state of a JsonCard component: isExpanded, isFlipped,
                   \* what its content area displays, the onClick calls it made
    editor,        \* the state of the JsonEditor page: its useState values, the
                   \* query's data (currentFile), and what its handlers did last
    store,         \* MemStorage.jsonFiles of the server: the files by their keys
    imported,      \* for each key, the content the file was created with
                   \* (kept for the properties; the program has no such record)
    response       \* the server's answer to the latest request

\* The variables of the parser, and those of the page and the server.
parserVars == <<jsonContent, fileName, parsed, parsedAgain, content, maxLines, preview,
               walk, render>>
pageVars == <<component, editor, store, imported, response>>

vars == <<jsonContent, fileName, parsed, parsedAgain, content, maxLines, preview,
         walk, render, component, editor, store, imported, response>>

---------------------------------------------------------------------------
(* Characters *)

NonLatin1 == "U+03BB"
NL == "\n"

LowerCase ==
    <<"a", "b", "c", "d", "e", "f", "g", "h", "i", "j", "k", "l", "m",
      "n", "o", "p", "q", "r", "s", "t", "u", "v", "w", "x", "y", "z">>

UpperCase ==
    <<"A", "B", "C", "D", "E", "F", "G", "H", "I", "J", "K", "L", "M",
      "N", "O", "P", "Q", "R", "S", "T", "U", "V", "W", "X", "Y", "Z">>

Digits == <<"0", "1", "2", "3", "4", "5", "6", "7", "8", "9">>

IsUpper(c) == \E i \in 1..26 : UpperCase[i] = c
IsLower(c) == \E i \in 1..26 : LowerCase[i] = c
IsDigit(c) == \E i \in 1..10 : Digits[i] = c

\* The code unit of a character.
CharCode(c) ==
    IF IsLower(c) THEN 96 + (CHOOSE i \in 1..26 : LowerCase[i] = c)
    ELSE IF IsUpper(c) THEN 64 + (CHOOSE i \in 1..26 : UpperCase[i] = c)
    ELSE IF IsDigit(c) THEN 47 + (CHOOSE i \in 1..10 : Digits[i] = c)
    ELSE CASE c = "$" -> 36  [] c = "." -> 46  [] c = "?" -> 63  [] c = "_" -> 95
           [] c = " " -> 32  [] c = NL -> 10   [] c = "\"" -> 34 [] c = "\\" -> 92
           [] c = NonLatin1 -> 955

\* String.prototype.toUpperCase of one character.
toUpperCase(c) ==
    IF IsLower(c) THEN UpperCase[CHOOSE i \in 1..26 : LowerCase[i] = c] ELSE c

\* Number.prototype.toString of an integer.
RECURSIVE NatToString(_)
NatToString(n) ==
    IF n < 10 THEN <<Digits[n + 1]>>
    ELSE NatToString(n \div 10) \o <<Digits[(n % 10) + 1]>>

numToString(n) == IF n < 0 THEN <<"-">> \o NatToString(-n) ELSE NatToString(n)

\* String.prototype.includes
includes(hay, needle) ==
    \E i \in 1..(Len(hay) - Len(needle) + 1) :
        SubSeq(hay, i, i + Len(needle) - 1) = needle

\* Array.prototype.slice(0, end) and String.prototype.substring(0, end), end >= 0
\* for substring; slice counts a negative end from the end of the array.
slice(s, end) ==
    LET e == IF end < 0 THEN Len(s) + end ELSE end
    IN  IF e <= 0 THEN <<>> ELSE SubSeq(s, 1, IF e > Len(s) THEN Len(s) ELSE e)

substring(s, end) ==
    IF end <= 0 THEN <<>> ELSE SubSeq(s, 1, IF end > Len(s) THEN Len(s) ELSE end)

---------------------------------------------------------------------------
(* JSON values *)

JNull == [k |-> "null"]
JBool(b) == [k |-> "bool", b |-> b]
JNum(n) == [k |-> "num", n |-> n]
JStr(s) == [k |-> "str", s |-> s]
JArr(items) == [k |-> "arr", items |-> items]
JObj(fields) == [k |-> "obj", fields |-> fields]
Field(key, val) == [key |-> key, val |-> val]

\* Array.isArray(v)
IsArray(v) == v.k = "arr"
\* typeof v === 'object' && v !== null && !Array.isArray(v)
IsObject(v) == v.k = "obj"

\* A key that is a canonical array index ("0", "7", "12"): Object.keys lists
\* these first, in ascending numeric order, before the other keys.
IsIndexKey(key) ==
    /\ Len(key) > 0
    /\ \A i \in 1..Len(key) : IsDigit(key[i])
    /\ (Len(key) > 1 => key[1] # "0")

RECURSIVE IndexValue(_)
IndexValue(key) ==
    IF key = <<>> THEN 0
    ELSE 10 * IndexValue(SubSeq(key, 1, Len(key) - 1))
         + (CHOOSE d \in 0..9 : Digits[d + 1] = key[Len(key)])

\* The positions of obj.fields in the order Object.keys enumerates them.
RECURSIVE SortIndexKeys(_, _)
SortIndexKeys(fields, idx) ==
    IF idx = {} THEN <<>>
    ELSE LET m == CHOOSE i \in idx :
                    \A j \in idx : IndexValue(fields[i].key) <= IndexValue(fields[j].key)
         IN  <<m>> \o SortIndexKeys(fields, idx \ {m})

KeyOrder(obj) ==
    LET n == Len(obj.fields)
        rest[i \in 0..n] ==
            IF i = 0 THEN <<>>
            ELSE IF IsIndexKey(obj.fields[i].key) THEN rest[i - 1]
            ELSE Append(rest[i - 1], i)
    IN  SortIndexKeys(obj.fields, {i \in 1..n : IsIndexKey(obj.fields[i].key)})
        \o rest[n]

\* Object.keys(obj)
ObjectKeys(obj) ==
    LET ord == KeyOrder(obj)
    IN  [i \in 1..Len(ord) |-> obj.fields[ord[i]].key]

\* obj[key], for a key of obj
Get(obj, key) ==
    obj.fields[CHOOSE i \in 1..Len(obj.fields) : obj.fields[i].key = key].val

\* One character of a string inside JSON.stringify's output.
Escape(c) ==
    CASE c = "\"" -> <<"\\", "\"">>
      [] c = "\\" -> <<"\\", "\\">>
      [] c = NL -> <<"\\", "n">>
      [] OTHER -> <<c>>

Quote(s) ==
    LET q[i \in 0..Len(s)] == IF i = 0 THEN <<"\"">> ELSE q[i - 1] \o Escape(s[i])
    IN  q[Len(s)] \o <<"\"">>

\* JSON.stringify(v)
RECURSIVE JSONstringify(_)
JSONstringify(v) ==
    CASE v.k = "null" -> <<"n", "u", "l", "l">>
      [] v.k = "bool" -> IF v.b THEN <<"t", "r", "u", "e">>
                         ELSE <<"f", "a", "l", "s", "e">>
      [] v.k = "num" -> numToString(v.n)
      [] v.k = "str" -> Quote(v.s)
      [] v.k = "arr" ->
           LET a[i \in 0..Len(v.items)] ==
                   IF i = 0 THEN <<"[">>
                   ELSE a[i - 1] \o (IF i > 1 THEN <<",">> ELSE <<>>)
                        \o JSONstringify(v.items[i])
           IN  a[Len(v.items)] \o <<"]">>
      [] v.k = "obj" ->
           LET keys == ObjectKeys(v)
               o[i \in 0..Len(keys)] ==
                   IF i = 0 THEN <<"{">>
                   ELSE o[i - 1] \o (IF i > 1 THEN <<",">> ELSE <<>>)
                        \o Quote(keys[i]) \o <<":">>
                        \o JSONstringify(Get(v, keys[i]))
           IN  o[Len(keys)] \o <<"}">>

---------------------------------------------------------------------------
(* Card ids: btoa(path).replace(/[/+=]/g, '').substring(0, 8) *)

Base64Alphabet ==
    <<"A", "B", "C", "D", "E", "F", "G", "H", "I", "J", "K", "L", "M",
      "N", "O", "P", "Q", "R", "S", "T", "U", "V", "W", "X", "Y", "Z",
      "a", "b", "c", "d", "e", "f", "g", "h", "i", "j", "k", "l", "m",
      "n", "o", "p", "q", "r", "s", "t", "u", "v", "w", "x", "y", "z",
      "0", "1", "2", "3", "4", "5", "6", "7", "8", "9", "+", "/">>

B64(n) == Base64Alphabet[n + 1]

InvalidCharacterError == <<"InvalidCharacterError">>

\* btoa of a string all of whose characters are in the Latin1 range.
RECURSIVE Base64(_)
Base64(s) ==
    IF Len(s) = 0 THEN <<>>
    ELSE IF Len(s) = 1 THEN
        LET b1 == CharCode(s[1])
        IN  <<B64(b1 \div 4), B64((b1 % 4) * 16), "=", "=">>
    ELSE IF Len(s) = 2 THEN
        LET b1 == CharCode(s[1])
            b2 == CharCode(s[2])
        IN  <<B64(b1 \div 4), B64((b1 % 4) * 16 + b2 \div 16),
              B64((b2 % 16) * 4), "=">>
    ELSE
        LET b1 == CharCode(s[1])
            b2 == CharCode(s[2])
            b3 == CharCode(s[3])
        IN  <<B64(b1 \div 4), B64((b1 % 4) * 16 + b2 \div 16),
              B64((b2 % 16) * 4 + b3 \div 64), B64(b3 % 64)>>
            \o Base64(SubSeq(s, 4, Len(s)))

\* btoa(s): throws InvalidCharacterError on a character outside Latin1.
btoa(s) ==
    IF \E i \in 1..Len(s) : CharCode(s[i]) > 255 THEN InvalidCharacterError
    ELSE Base64(s)

\* s.replace(/[/+=]/g, '')
StripB64(s) ==
    LET r[i \in 0..Len(s)] ==
            IF i = 0 THEN <<>>
            ELSE IF s[i] \in {"/", "+", "="} THEN r[i - 1]
            ELSE Append(r[i - 1], s[i])
    IN  r[Len(s)]

IdLength == 8

generateId(path) ==
    IF btoa(path) = InvalidCharacterError THEN InvalidCharacterError
    ELSE substring(StripB64(btoa(path)), IdLength)

---------------------------------------------------------------------------
(* Card titles *)

\* parts[parts.length - 1] of path.split('.')
LastPart(path) ==
    LET dots == {i \in 1..Len(path) : path[i] = "."}
    IN  IF dots = {} THEN path
        ELSE SubSeq(path, (CHOOSE i \in dots : \A j \in dots : j <= i) + 1, Len(path))

\* s.replace(/([A-Z])/g, ' $1')
SpaceCapitals(s) ==
    LET r[i \in 0..Len(s)] ==
            IF i = 0 THEN <<>>
            ELSE IF IsUpper(s[i]) THEN r[i - 1] \o <<" ", s[i]>>
            ELSE Append(r[i - 1], s[i])
    IN  r[Len(s)]

\* s.replace(/_/g, ' ')
SpaceUnderscores(s) == [i \in 1..Len(s) |-> IF s[i] = "_" THEN " " ELSE s[i]]

\* s.replace(/^./, str => str.toUpperCase()): '.' matches no line terminator.
CapitalizeFirst(s) ==
    IF s = <<>> \/ s[1] = NL THEN s
    ELSE <<toUpperCase(s[1])>> \o Tail(s)

WhiteSpace == {" ", NL}

\* String.prototype.trim
RECURSIVE trim(_)
trim(s) ==
    IF s = <<>> THEN s
    ELSE IF s[1] \in WhiteSpace THEN trim(Tail(s))
    ELSE IF s[Len(s)] \in WhiteSpace THEN trim(SubSeq(s, 1, Len(s) - 1))
    ELSE s

pathToTitle(path) ==
    IF path = <<"$">> THEN <<"Root Object">>
    ELSE trim(CapitalizeFirst(SpaceUnderscores(SpaceCapitals(LastPart(path)))))

---------------------------------------------------------------------------
(* Card extraction *)

\* JSON.stringify throws only on a cycle or a BigInt; a value that came out
\* of JSON.parse has neither.
validateJson(obj) == TRUE

\* getWarnings looking for null among the top-level values only.
getWarningsTopLevelNull(obj) ==
    IF IsArray(obj) \/ IsObject(obj) THEN
        (IF IsArray(obj) /\ Len(obj.items) = 0 THEN <<"Empty array">> ELSE <<>>)
        \o (IF ~IsArray(obj) /\ Len(ObjectKeys(obj)) = 0 THEN <<"Empty object">> ELSE <<>>)
        \o (IF \/ IsArray(obj) /\ \E i \in 1..Len(obj.items) : obj.items[i].k = "null"
               \/ IsObject(obj) /\ \E i \in 1..Len(obj.fields) : obj.fields[i].val.k = "null"
            THEN <<"Contains null values">> ELSE <<>>)
    ELSE <<>>

\* getWarnings testing the length without Array.isArray: an array of one
\* item falls under the test too.
getWarningsShortArray(obj) ==
    IF IsArray(obj) \/ IsObject(obj) THEN
        (IF IsArray(obj) /\ Len(obj.items) <= 1 THEN <<"Empty array">> ELSE <<>>)
        \o (IF ~IsArray(obj) /\ Len(ObjectKeys(obj)) = 0 THEN <<"Empty object">> ELSE <<>>)
        \o (IF includes(JSONstringify(obj), <<"n", "u", "l", "l">>)
            THEN <<"Contains null values">> ELSE <<>>)
    ELSE <<>>

\* getWarnings taking an empty container for one that holds null values.
getWarningsEmptyAsNull(obj) ==
    IF IsArray(obj) \/ IsObject(obj) THEN
        (IF IsArray(obj) /\ Len(obj.items) = 0 THEN <<"Empty array">> ELSE <<>>)
        \o (IF ~IsArray(obj) /\ Len(ObjectKeys(obj)) = 0 THEN <<"Empty object">> ELSE <<>>)
        \o (IF \/ includes(JSONstringify(obj), <<"n", "u", "l", "l">>)
               \/ IsArray(obj) /\ Len(obj.items) = 0
            THEN <<"Contains null values">> ELSE <<>>)
    ELSE <<>>

getWarnings(obj) ==
    IF IsArray(obj) \/ IsObject(obj) THEN
        (IF IsArray(obj) /\ Len(obj.items) = 0 THEN <<"Empty array">> ELSE <<>>)
        \o (IF ~IsArray(obj) /\ Len(ObjectKeys(obj)) = 0 THEN <<"Empty object">> ELSE <<>>)
        \o (IF includes(JSONstringify(obj), <<"n", "u", "l", "l">>)
            THEN <<"Contains null values">> ELSE <<>>)
    ELSE <<>>

MaxCardDepth == 3

\* A card.  node is not a field of the source's card: it is the sequence of
\* keys leading from the root to the value the card's content refers to, and
\* stands for the identity of that object reference.
\* An array card whose id is generated from the keys that lead to the array,
\* not from its path.
ArrayCardIdByNode(obj, path, node) ==
    LET chain[i \in 0..Len(node)] ==
            IF i = 0 THEN <<"$">> ELSE chain[i - 1] \o <<"?">> \o node[i]
    IN  [id |-> generateId(chain[Len(node)]),
         title |-> pathToTitle(path),
         description |-> <<"Array with ">> \o numToString(Len(obj.items)) \o <<" items">>,
         path |-> path,
         content |-> obj,
         type |-> "array",
         isValid |-> validateJson(obj),
         warnings |-> getWarnings(obj),
         node |-> node]

ArrayCard(obj, path, node) ==
    [id |-> generateId(path),
     title |-> pathToTitle(path),
     description |-> <<"Array with ">> \o numToString(Len(obj.items)) \o <<" items">>,
     path |-> path,
     content |-> obj,
     type |-> "array",
     isValid |-> validateJson(obj),
     warnings |-> getWarnings(obj),
     node |-> node]

ObjectCard(obj, keys, path, node) ==
    [id |-> generateId(path),
     title |-> pathToTitle(path),
     description |-> <<"Object with ">> \o numToString(Len(keys)) \o <<" properties">>,
     path |-> path,
     content |-> obj,
     type |-> "object",
     isValid |-> validateJson(obj),
     warnings |-> getWarnings(obj),
     node |-> node]

\* The root card with its id generated from the path like every other card's.
RootCardGeneratedId(jc, fn) ==
    [id |-> generateId(<<"$">>),
     title |-> fn,
     description |-> <<"Root value">>,
     path |-> <<"$">>,
     content |-> jc,
     type |-> "primitive",
     isValid |-> TRUE,
     node |-> <<>>]

\* The card of a primitive root: the source gives it no warnings field.
RootCard(jc, fn) ==
    [id |-> <<"r", "o", "o", "t">>,
     title |-> fn,
     description |-> <<"Root value">>,
     path |-> <<"$">>,
     content |-> jc,
     type |-> "primitive",
     isValid |-> TRUE,
     node |-> <<>>]

\* The path of the field key of the object at path.
NewPath(path, key) ==
    IF path = <<"$">> THEN <<"$", ".">> \o key ELSE path \o <<".">> \o key

\* Whether extractCards recurses into a field's value.
Recurses(value) == IsObject(value) \/ IsArray(value)

\* A depth guard that lets the traversal go two levels further.
TooDeepLate(depth) == depth > MaxCardDepth + 2

\* Whether extractCards returns at once.
TooDeep(depth) == depth > MaxCardDepth

\* A card for every object, the empty one too.
HasOwnCardAlways(keys) == TRUE

\* Whether an object with these keys gets a card of its own.
HasOwnCard(keys) == Len(keys) > 0

\* extractCards(obj, cards, path, depth): the cards after the call.
RECURSIVE extractCards(_, _, _, _, _)
extractCards(obj, cards, path, depth, node) ==
    IF TooDeep(depth) THEN cards
    ELSE IF IsArray(obj) THEN Append(cards, ArrayCard(obj, path, node))
    ELSE IF IsObject(obj) THEN
        LET keys == ObjectKeys(obj)
            own == IF HasOwnCard(keys)
                   THEN Append(cards, ObjectCard(obj, keys, path, node))
                   ELSE cards
            loop[i \in 0..Len(keys)] ==
                IF i = 0 THEN own
                ELSE LET key == keys[i]
                         value == Get(obj, key)
                     IN  IF Recurses(value)
                         THEN extractCards(value, loop[i - 1], NewPath(path, key),
                                           depth + 1, Append(node, key))
                         ELSE loop[i - 1]
        IN  loop[Len(keys)]
    ELSE cards

\* parseJsonToCards(jsonContent, fileName): the returned cards, or the error
\* that generateId's btoa raised on the way.
parseJsonToCards(jc, fn) ==
    IF ~(IsObject(jc) \/ IsArray(jc))
    THEN [status |-> "returned", cards |-> <<RootCard(jc, fn)>>]
    ELSE LET cs == extractCards(jc, <<>>, <<"$">>, 0, <<>>)
         IN  IF \E i \in 1..Len(cs) : cs[i].id = InvalidCharacterError
             THEN [status |-> "threw", error |-> "InvalidCharacterError"]
             ELSE [status |-> "returned", cards |-> cs]

---------------------------------------------------------------------------
(* Preview rendering *)

Min(a, b) == IF a < b THEN a ELSE b

\* typeof v === 'object' && v !== null: true of arrays too.
IsTypeofObject(v) == v.k \in {"arr", "obj"}

\* Object.keys(v) of an object or an array (whose keys are its indices).
KeysOf(v) ==
    IF IsArray(v) THEN [i \in 1..Len(v.items) |-> numToString(i - 1)]
    ELSE ObjectKeys(v)

\* v[key] for a key of KeysOf(v)
ValueAt(v, key) ==
    IF IsArray(v) THEN v.items[IndexValue(key) + 1] ELSE Get(v, key)

\* arr.join(sep) of an array of strings
RECURSIVE join(_, _)
join(strs, sep) ==
    IF Len(strs) = 0 THEN <<>>
    ELSE IF Len(strs) = 1 THEN strs[1]
    ELSE strs[1] \o sep \o join(Tail(strs), sep)

\* What a conversion to a string raises on an object that cannot be converted.
TypeError == <<"TypeError">>

\* Whether the building of a text raised: a text is made of characters, so
\* the error can be told from every text.
Raises(text) == \E i \in 1..Len(text) : text[i] = "TypeError"

\* Object.prototype.hasOwnProperty.call(v, key) of an object
HasOwn(v, key) == \E i \in 1..Len(v.fields) : v.fields[i].key = key

\* String(v).  An object is converted by its toString method: an object that
\* came out of JSON.parse with a key "toString" of its own has a JSON value
\* there, which is not callable, and valueOf gives no primitive either, so
\* the conversion raises a TypeError.  An array joins the conversions of its
\* elements (null as the empty string) and raises when one of them does.
RECURSIVE String(_)
String(v) ==
    CASE v.k = "null" -> <<"n", "u", "l", "l">>
      [] v.k = "bool" -> IF v.b THEN <<"t", "r", "u", "e">>
                         ELSE <<"f", "a", "l", "s", "e">>
      [] v.k = "num" -> numToString(v.n)
      [] v.k = "str" -> v.s
      [] v.k = "arr" ->
           LET parts == [i \in 1..Len(v.items) |->
                            IF v.items[i].k = "null" THEN <<>> ELSE String(v.items[i])]
           IN  IF \E i \in 1..Len(parts) : parts[i] = TypeError THEN TypeError
               ELSE join(parts, <<",">>)
      [] v.k = "obj" ->
           IF HasOwn(v, <<"t", "o", "S", "t", "r", "i", "n", "g">>) THEN TypeError
           ELSE <<"[object Object]">>

PrimitiveMaxLength == 30
PrimitiveKeep == 27

formatPrimitiveValue(value) ==
    CASE value.k = "str" ->
           IF Len(value.s) > PrimitiveMaxLength
           THEN <<"\"">> \o substring(value.s, PrimitiveKeep) \o <<"...", "\"">>
           ELSE <<"\"">> \o value.s \o <<"\"">>
      [] value.k = "num" -> numToString(value.n)
      [] value.k = "bool" -> IF value.b THEN <<"t", "r", "u", "e">>
                             ELSE <<"f", "a", "l", "s", "e">>
      [] value.k = "null" -> <<"n", "u", "l", "l">>
      [] OTHER -> String(value)

\* The friendly-name table: key, display name.
friendlyMappings ==
    <<<<<<"i", "d">>,
        <<"I", "D", " ", "N", "u", "m", "b", "e", "r">>>>,
      <<<<"u", "s", "e", "r", "_", "i", "d">>,
        <<"U", "s", "e", "r", " ", "I", "D">>>>,
      <<<<"u", "s", "e", "r", "I", "d">>,
        <<"U", "s", "e", "r", " ", "I", "D">>>>,
      <<<<"n", "a", "m", "e">>,
        <<"N", "a", "m", "e">>>>,
      <<<<"f", "i", "r", "s", "t", "N", "a", "m", "e">>,
        <<"F", "i", "r", "s", "t", " ", "N", "a", "m", "e">>>>,
      <<<<"f", "i", "r", "s", "t", "_", "n", "a", "m", "e">>,
        <<"F", "i", "r", "s", "t", " ", "N", "a", "m", "e">>>>,
      <<<<"l", "a", "s", "t", "N", "a", "m", "e">>,
        <<"L", "a", "s", "t", " ", "N", "a", "m", "e">>>>,
      <<<<"l", "a", "s", "t", "_", "n", "a", "m", "e">>,
        <<"L", "a", "s", "t", " ", "N", "a", "m", "e">>>>,
      <<<<"e", "m", "a", "i", "l">>,
        <<"E", "m", "a", "i", "l">>>>,
      <<<<"p", "h", "o", "n", "e">>,
        <<"P", "h", "o", "n", "e">>>>,
      <<<<"a", "d", "d", "r", "e", "s", "s">>,
        <<"A", "d", "d", "r", "e", "s", "s">>>>,
      <<<<"c", "r", "e", "a", "t", "e", "d", "_", "a", "t">>,
        <<"C", "r", "e", "a", "t", "e", "d", " ", "D", "a", "t", "e">>>>,
      <<<<"c", "r", "e", "a", "t", "e", "d", "A", "t">>,
        <<"C", "r", "e", "a", "t", "e", "d", " ", "D", "a", "t", "e">>>>,
      <<<<"u", "p", "d", "a", "t", "e", "d", "_", "a", "t">>,
        <<"U", "p", "d", "a", "t", "e", "d", " ", "D", "a", "t", "e">>>>,
      <<<<"u", "p", "d", "a", "t", "e", "d", "A", "t">>,
        <<"U", "p", "d", "a", "t", "e", "d", " ", "D", "a", "t", "e">>>>,
      <<<<"p", "r", "i", "c", "e">>,
        <<"P", "r", "i", "c", "e">>>>,
      <<<<"a", "m", "o", "u", "n", "t">>,
        <<"A", "m", "o", "u", "n", "t">>>>,
      <<<<"q", "u", "a", "n", "t", "i", "t", "y">>,
        <<"Q", "u", "a", "n", "t", "i", "t", "y">>>>,
      <<<<"s", "t", "a", "t", "u", "s">>,
        <<"S", "t", "a", "t", "u", "s">>>>,
      <<<<"i", "s", "A", "c", "t", "i", "v", "e">>,
        <<"I", "s", " ", "A", "c", "t", "i", "v", "e">>>>,
      <<<<"i", "s", "_", "a", "c", "t", "i", "v", "e">>,
        <<"I", "s", " ", "A", "c", "t", "i", "v", "e">>>>>>

InMappings(key) == \E i \in 1..Len(friendlyMappings) : friendlyMappings[i][1] = key

\* friendlyMappings[key] for a key that is no entry of the table but a property
\* every object inherits: the value is truthy and is returned as it is; the
\* template literal that receives it renders it as text.
Inherited ==
    <<<<<<"c", "o", "n", "s", "t", "r", "u", "c", "t", "o", "r">>,
        <<"function Object() { [native code] }">>>>,
      <<<<"t", "o", "S", "t", "r", "i", "n", "g">>,
        <<"function toString() { [native code] }">>>>,
      <<<<"_", "_", "p", "r", "o", "t", "o", "_", "_">>,
        <<"[object Object]">>>>,
      <<<<"t", "o", "L", "o", "c", "a", "l", "e", "S", "t", "r", "i", "n", "g">>,
        <<"function toLocaleString() { [native code] }">>>>,
      <<<<"v", "a", "l", "u", "e", "O", "f">>,
        <<"function valueOf() { [native code] }">>>>,
      <<<<"h", "a", "s", "O", "w", "n", "P", "r", "o", "p", "e", "r", "t", "y">>,
        <<"function hasOwnProperty() { [native code] }">>>>,
      <<<<"i", "s", "P", "r", "o", "t", "o", "t", "y", "p", "e", "O", "f">>,
        <<"function isPrototypeOf() { [native code] }">>>>,
      <<<<"p", "r", "o", "p", "e", "r", "t", "y", "I", "s", "E", "n", "u", "m", "e", "r", "a", "b", "l", "e">>,
        <<"function propertyIsEnumerable() { [native code] }">>>>,
      <<<<"_", "_", "d", "e", "f", "i", "n", "e", "G", "e", "t", "t", "e", "r", "_", "_">>,
        <<"function __defineGetter__() { [native code] }">>>>,
      <<<<"_", "_", "d", "e", "f", "i", "n", "e", "S", "e", "t", "t", "e", "r", "_", "_">>,
        <<"function __defineSetter__() { [native code] }">>>>,
      <<<<"_", "_", "l", "o", "o", "k", "u", "p", "G", "e", "t", "t", "e", "r", "_", "_">>,
        <<"function __lookupGetter__() { [native code] }">>>>,
      <<<<"_", "_", "l", "o", "o", "k", "u", "p", "S", "e", "t", "t", "e", "r", "_", "_">>,
        <<"function __lookupSetter__() { [native code] }">>>>>>

IsInherited(key) == \E i \in 1..Len(Inherited) : Inherited[i][1] = key

\* makeKeyFriendly without the table: every key goes through the general rule.
makeKeyFriendlyByRule(key) ==
    trim(CapitalizeFirst(SpaceUnderscores(SpaceCapitals(key))))

makeKeyFriendly(key) ==
    IF InMappings(key)
    THEN friendlyMappings[CHOOSE i \in 1..Len(friendlyMappings) :
                              friendlyMappings[i][1] = key][2]
    ELSE IF IsInherited(key)
    THEN Inherited[CHOOSE i \in 1..Len(Inherited) : Inherited[i][1] = key][2]
    ELSE trim(CapitalizeFirst(SpaceUnderscores(SpaceCapitals(key))))

ExpandedAbove == 10
MaxItems == 20
MaxCardItems == 10
ItemMaxLength == 30
MaxKeyNames == 3
MaxCompactExamples == 4
FieldMaxLength == 25
MaxInlineKeys == 3

\* The values i + 1 takes in for (let i = 0; i < n; i++).
Iterations(n) == 1..(IF n < 0 THEN 0 ELSE n)

\* The lines a loop pushes: each entry of pushes is <<>> (nothing pushed in
\* that iteration) or <<the line>>.
Pushed(pushes) ==
    LET p[i \in 0..Len(pushes)] ==
            IF i = 0 THEN <<>> ELSE p[i - 1] \o pushes[i]
    IN  p[Len(pushes)]

\* The lines addSimpleArrayPreview pushes.
addSimpleArrayPreview(arr, maxL) ==
    IF Len(arr) = 0 THEN << <<"U+1F4E6", " Empty list">> >>
    ELSE
    LET count == IF Len(arr) = 1 THEN <<"U+1F4E6", " Contains 1 item">>
                 ELSE <<"U+1F4E6", " Contains ">> \o numToString(Len(arr)) \o <<" items">>
        showAllItems == maxL > ExpandedAbove
        maxItemsToShow == IF showAllItems THEN Min(Len(arr), MaxItems) ELSE 1
        firstItem == arr[1]
        textItem(i) ==
            IF arr[i].k = "str"
            THEN << <<"   Item ">> \o numToString(i) \o <<": \"">>
                    \o (IF showAllItems THEN arr[i].s
                        ELSE IF Len(arr[i].s) > ItemMaxLength
                        THEN substring(arr[i].s, ItemMaxLength) \o <<"...">>
                        ELSE arr[i].s)
                    \o <<"\"">> >>
            ELSE <<>>
        numberItem(i) ==
            IF arr[i].k = "num"
            THEN << <<"   Number ">> \o numToString(i) \o <<": ">> \o numToString(arr[i].n) >>
            ELSE <<>>
        cardItem(i) ==
            IF IsTypeofObject(arr[i]) /\ Len(KeysOf(arr[i])) > 0
            THEN LET mainKey == KeysOf(arr[i])[1]
                 IN  << <<"   Card ">> \o numToString(i) \o <<": ">>
                        \o makeKeyFriendly(mainKey) \o <<" = ">>
                        \o formatPrimitiveValue(ValueAt(arr[i], mainKey)) >>
            ELSE <<>>
        variousItem(i) ==
            << <<"   Item ">> \o numToString(i) \o <<": ">> \o formatPrimitiveValue(arr[i]) >>
        keys == KeysOf(firstItem)
        body ==
            IF firstItem.k = "str"
            THEN << <<"U+1F4DD", " List of text values">> >> \o Pushed([i \in Iterations(maxItemsToShow) |-> textItem(i)])
            ELSE IF firstItem.k = "num"
            THEN << <<"U+1F522", " List of numbers">> >> \o Pushed([i \in Iterations(maxItemsToShow) |-> numberItem(i)])
            ELSE IF IsTypeofObject(firstItem)
            THEN << <<"U+1F4CB", " List of information cards">> >>
                 \o (IF Len(keys) > 0
                     THEN << <<"   Each card has: ">>
                             \o join(slice(keys, MaxKeyNames), <<", ">>)
                             \o (IF Len(keys) > MaxKeyNames THEN <<"...">> ELSE <<>>) >>
                     ELSE <<>>)
                 \o (IF showAllItems
                     THEN Pushed([i \in Iterations(Min(maxItemsToShow, MaxCardItems)) |-> cardItem(i)])
                     ELSE <<>>)
            ELSE << <<"U+1F4CA", " List of various items">> >>
                 \o (IF showAllItems THEN Pushed([i \in Iterations(maxItemsToShow) |-> variousItem(i)]) ELSE <<>>)
        more ==
            IF ~showAllItems /\ Len(arr) > 1
            THEN << <<"   (and ">> \o numToString(Len(arr) - 1) \o <<" more similar items)">> >>
            ELSE IF showAllItems /\ Len(arr) > maxItemsToShow
            THEN << <<"   (and ">> \o numToString(Len(arr) - maxItemsToShow)
                    \o <<" more items...)">> >>
            ELSE <<>>
    IN  <<count>> \o body \o more

\* The text addSimpleObjectPreview shows after "friendlyName: ".
FieldValue(value, showAllProperties) ==
    IF value.k = "str"
    THEN <<"\"">>
         \o (IF showAllProperties THEN value.s
             ELSE IF Len(value.s) > FieldMaxLength
             THEN substring(value.s, FieldMaxLength) \o <<"...">>
             ELSE value.s)
         \o <<"\"">>
    ELSE IF value.k = "num" THEN numToString(value.n)
    ELSE IF value.k = "bool" THEN (IF value.b THEN <<"Yes">> ELSE <<"No">>)
    ELSE IF IsArray(value)
    THEN <<"List with ">> \o numToString(Len(value.items)) \o <<" items">>
    ELSE IF IsTypeofObject(value)
    THEN LET nestedKeys == ObjectKeys(value)
         IN  IF showAllProperties /\ Len(nestedKeys) <= MaxInlineKeys
             THEN <<"{">>
                  \o join([i \in 1..Len(nestedKeys) |->
                              makeKeyFriendly(nestedKeys[i]) \o <<": ">>
                              \o formatPrimitiveValue(Get(value, nestedKeys[i]))],
                          <<", ">>)
                  \o <<"}">>
             ELSE <<"More detailed information">>
    ELSE <<"(empty)">>

\* maxExamples of addSimpleObjectPreview
MaxExamples(nKeys, maxL) ==
    IF maxL > ExpandedAbove THEN nKeys
    ELSE Min(MaxCompactExamples, Min(nKeys, maxL - 2))

\* The lines addSimpleObjectPreview pushes.
addSimpleObjectPreview(obj, maxL) ==
    LET keys == ObjectKeys(obj)
    IN  IF Len(keys) = 0 THEN << <<"U+1F4C2", " Empty information card">> >>
        ELSE
        LET count == IF Len(keys) = 1
                     THEN <<"U+1F4C2", " Information card with 1 piece of data">>
                     ELSE <<"U+1F4C2", " Information card with ">> \o numToString(Len(keys))
                          \o <<" pieces of data">>
            showAllProperties == maxL > ExpandedAbove
            maxExamples == MaxExamples(Len(keys), maxL)
            example(i) ==
                << <<"   ">> \o makeKeyFriendly(keys[i]) \o <<": ">>
                   \o FieldValue(Get(obj, keys[i]), showAllProperties) >>
            more ==
                IF Len(keys) > maxExamples
                THEN << <<"   ... and ">> \o numToString(Len(keys) - maxExamples)
                        \o <<" more pieces of information">> >>
                ELSE <<>>
        IN  <<count>> \o Pushed([i \in Iterations(maxExamples) |-> example(i)]) \o more

\* The lines createStructuredPreview collects before it cuts them.
PreviewLines(cnt, maxL) ==
    IF IsArray(cnt) THEN addSimpleArrayPreview(cnt.items, maxL)
    ELSE IF IsTypeofObject(cnt) THEN addSimpleObjectPreview(cnt, maxL)
    ELSE << <<"U+1F4C4", " Simple value: ">> \o formatPrimitiveValue(cnt) >>

\* A cut that keeps one line less than the budget.
KeptOneLess(lines, maxL) == slice(lines, maxL - 1)

\* preview.slice(0, maxLines)
Kept(lines, maxL) == slice(lines, maxL)

\* createStructuredPreview(content, maxLines): the text, or the TypeError that
\* formatPrimitiveValue's String(value) raised while a line was built.
createStructuredPreview(cnt, maxL) ==
    LET lines == PreviewLines(cnt, maxL)
    IN  IF \E i \in 1..Len(lines) : Raises(lines[i]) THEN TypeError
        ELSE join(Kept(lines, maxL), <<NL>>)

\* The catch branch of formatJsonPreview: String(content), which raises in its
\* turn when the content cannot be converted; nothing catches that.
CatchBranch(cnt) ==
    IF String(cnt) = TypeError THEN [status |-> "threw", error |-> "TypeError"]
    ELSE [status |-> "returned", text |-> String(cnt)]

\* formatJsonPreview(content, maxLines)
formatJsonPreview(cnt, maxL) ==
    IF createStructuredPreview(cnt, maxL) = TypeError THEN CatchBranch(cnt)
    ELSE [status |-> "returned", text |-> createStructuredPreview(cnt, maxL)]

---------------------------------------------------------------------------
(* The documents and labels the extractor is run on *)

Keys == {<<"a">>, <<"b">>, <<"a", ".", "b">>}
KeyPairs == {<< <<"a">>, <<"b">> >>, << <<"a">>, <<"a", ".", "b">> >>}
WrapKeys == {<<"a">>, <<"b">>}

Leaf == {JNull, JNum(1), JArr(<<>>), JArr(<<JNull>>), JObj(<<>>)}
Sibling == {JArr(<<>>)}

Obj1(key, val) == JObj(<<Field(key, val)>>)
Obj2(k1, v1, k2, v2) == JObj(<<Field(k1, v1), Field(k2, v2)>>)

\* Depth of the values every key and key pair is tried in.
BaseDepth == 2
\* Number of single-key objects wrapped around them.
MaxWrap == 3

RECURSIVE Val(_)
Val(d) ==
    IF d = 0 THEN Leaf
    ELSE LET S == Val(d - 1)
         IN  Leaf \cup {Obj1(key, v) : key \in Keys, v \in S}
                  \cup {Obj2(p[1], v, p[2], w) : p \in KeyPairs, v \in S, w \in Sibling}

RECURSIVE Wrap(_, _)
Wrap(n, S) ==
    IF n = 0 THEN S
    ELSE LET W == Wrap(n - 1, S)
         IN  W \cup {Obj1(key, v) : key \in WrapKeys, v \in W}

x1 == Obj1(<<"x">>, JNum(1))
x2 == Obj1(<<"x">>, JNum(2))

\* The documents the specification and the source's comments discuss, and
\* documents with the keys the systematic ones lack.
\* A document with a card for each list of warnings, and an empty object.
allWarnings ==
    JObj(<<Field(<<"n">>, JArr(<<JNull>>)), Field(<<"e">>, JArr(<<>>)),
           Field(<<"o">>, Obj2(<<"x">>, JNum(1), <<"y">>, JObj(<<>>)))>>)

Examples ==
    {JBool(TRUE), JNum(7), JStr(<<"n", "u", "l", "l">>), JStr(<<>>),
     Obj1(<<"a">>, Obj1(<<"b">>, Obj1(<<"c">>, Obj1(<<"d">>, Obj1(<<"e">>, JNum(1)))))),
     Obj1(<<"l", "i", "s", "t">>, JArr(<<x1, x2>>)),
     Obj1(<<"u", "s", "e", "r">>, Obj1(<<"i", "d">>, x1)),
     Obj1(<<"?">>, JArr(<<JNum(1)>>)),
     Obj1(<<NonLatin1>>, JArr(<<>>)),
     Obj1(<<"a">>, Obj1(<<NonLatin1>>, JNum(1))),
     Obj2(<<"b">>, JArr(<<>>), <<"1">>, x1),
     Obj1(<<"n", "u", "l", "l">>, JNum(1)),
     Obj1(<<"a">>, JStr(<<"n", "u", "l", "l">>)),
     Obj1(<<"a">>, JStr(<<NL, "u", "l", "l">>)),
     Obj2(<<"u", "s", "e", "r", "I", "d">>, x1, <<"f", "i", "r", "s", "t", "_", "n", "a", "m", "e">>, JArr(<<>>)),
     JArr(<<x1, JNull>>),
     JArr(<<JArr(<<>>)>>),
     allWarnings}

Docs == Wrap(MaxWrap, Val(BaseDepth)) \cup Examples

Labels == {<<"f">>, <<"d", "o", "c">>}

---------------------------------------------------------------------------
(* The values and line budgets the renderer is run on *)

Repeat(c, n) == [i \in 1..n |-> c]

sHi == <<"h", "i">>
sTwoLines == <<"a", NL, "b">>
s26 == Repeat("x", 26)
s31 == Repeat("y", 31)

userId7 == Obj1(<<"u", "s", "e", "r", "I", "d">>, JNum(7))
fourKeys ==
    JObj(<<Field(<<"a">>, JNum(1)), Field(<<"b">>, JNull),
           Field(<<"c">>, JArr(<<>>)), Field(<<"d">>, JStr(sHi))>>)
threeKeys ==
    JObj(<<Field(<<"n", "a", "m", "e">>, JStr(s31)), Field(<<"c">>, JArr(<<JNum(1), JNull>>)),
           Field(<<"f", "o", "o", "B", "a", "r">>, userId7)>>)

\* Array elements and field values, every JSON kind among them.
ValuePool ==
    <<JStr(sHi), JNum(7), userId7, JNull, JBool(TRUE), JArr(<<JNum(1)>>),
      JStr(sTwoLines), JStr(s31), JObj(<<>>), fourKeys, JBool(FALSE),
      JStr(s26), threeKeys, JArr(<<>>), Obj1(sTwoLines, fourKeys)>>

KeyPool ==
    <<<<"u", "s", "e", "r", "I", "d">>,
      <<"i", "d">>,
      <<"f", "i", "r", "s", "t", "_", "n", "a", "m", "e">>,
      <<"a", NL, "b">>,
      <<"f", "o", "o", "B", "a", "r">>,
      <<"c", "o", "n", "s", "t", "r", "u", "c", "t", "o", "r">>,
      <<"a", ".", "b">>,
      <<"s", "t", "a", "t", "u", "s">>,
      <<"x">>,
      <<"_", "_", "p", "r", "o", "t", "o", "_", "_">>,
      <<"n", "a", "m", "e">>,
      <<"t", "o", "S", "t", "r", "i", "n", "g">>,
      <<"i", "s", "_", "a", "c", "t", "i", "v", "e">>,
      <<"e", "m", "a", "i", "l">>>>

\* Longest array and largest object rendered.
MaxArrayLen == 21
MaxFields == 12
\* Largest line budget of the budgets tried one by one.
MaxLinesBound == 12
\* A line budget that cuts nothing off the previews of these values.
WideBudget == 40

PoolAt(r, i) == ValuePool[((r + i - 2) % Len(ValuePool)) + 1]

\* n copies of element r of the pool; n elements of the pool from element r on.
Same(r, n) == JArr([i \in 1..n |-> ValuePool[r]])
Mixed(r, n) == JArr([i \in 1..n |-> PoolAt(r, i)])
\* The first n keys of the key pool, with the values of the pool from r on.
ObjectOf(r, n) == JObj([i \in 1..n |-> Field(KeyPool[i], PoolAt(r, i))])

\* Values on which a conversion to a string raises.
ownToString == Obj1(<<"t", "o", "S", "t", "r", "i", "n", "g">>, JNum(1))

PreviewExamples ==
    {ownToString,
     JArr(<<JNull, ownToString>>),
     JArr(<<JNull, JArr(<<ownToString>>)>>),
     JArr(<<Obj1(<<"a">>, ownToString)>>),
     JArr(<<Obj1(<<"a">>, ownToString), ownToString>>),
     Obj1(<<"a">>, Obj1(<<"b">>, ownToString)),
     Obj2(<<"t", "o", "S", "t", "r", "i", "n", "g">>, JNum(1),
          <<"a">>, Obj1(<<"b">>, ownToString)),
     Obj2(<<"a">>, JNum(1), <<"b">>, fourKeys)}

PreviewValues ==
    {ValuePool[r] : r \in 1..Len(ValuePool)}
    \cup PreviewExamples
    \cup {Same(r, n) : r \in 1..Len(ValuePool), n \in 0..MaxArrayLen}
    \cup {Mixed(r, n) : r \in 1..Len(ValuePool), n \in 0..MaxArrayLen}
    \cup {ObjectOf(r, n) : r \in 1..Len(ValuePool), n \in 0..Min(MaxFields, Len(KeyPool))}

LineBudgets == {-1, WideBudget} \cup (0..MaxLinesBound)

---------------------------------------------------------------------------
(* The documents, labels and line budgets of a caller of both functions *)

\* An argument that is not supplied.
undefined == <<"undefined">>

CallLabels == Labels \cup {undefined}

\* Deepest nesting of a document.
MaxNesting == 6

\* n objects around a leaf, each the only field of the one around it.
RECURSIVE Chain(_, _)
Chain(n, leaf) == IF n = 0 THEN leaf ELSE Obj1(<<"a">>, Chain(n - 1, leaf))

CallDocs ==
    Examples \cup PreviewExamples \cup Val(1)
    \cup {Chain(n, leaf) : n \in 0..MaxNesting, leaf \in {JNum(1), JArr(<<JNull>>), x1}}
    \cup {Obj2(<<"a">>, Obj1(<<"b">>, JArr(<<>>)), <<"a", ".", "b">>, JArr(<<>>))}

CallBudgets == {-1, 0, 1, 5, 8, 11}

---------------------------------------------------------------------------
(* The two calls followed step by step: the control flow only *)

\* The value the keys of node lead to from the document, through object
\* fields: the obj argument of the call of extractCards made for that node.
RECURSIVE ValueOf(_, _)
ValueOf(v, node) ==
    IF node = <<>> THEN v ELSE ValueOf(Get(v, node[1]), Tail(node))

\* A call of extractCards on the stack: the node it was made for, its depth
\* argument, and where it stands (0 on entry, then the position in keys of
\* the key the for loop handles next).
Frame(node, depth) == [node |-> node, depth |-> depth, next |-> 0]

\* Whether generateId raises on the path of a node: the path is '$' and the
\* keys of the node, each after a '.'.
PathRaises(node) ==
    \E i \in 1..Len(node) : \E j \in 1..Len(node[i]) : CharCode(node[i][j]) > 255

\* The number of iterations the for loop of the rendering runs, when none of
\* them raises: the loop of the branch that addSimpleArrayPreview or
\* addSimpleObjectPreview takes (a bound below 1 means no iteration).
LoopBound(cnt, maxL) ==
    IF IsArray(cnt) THEN
        IF Len(cnt.items) = 0 THEN 0
        ELSE LET showAllItems == maxL > ExpandedAbove
                 maxItemsToShow == IF showAllItems THEN Min(Len(cnt.items), MaxItems) ELSE 1
                 firstItem == cnt.items[1]
             IN  IF firstItem.k \in {"str", "num"} THEN maxItemsToShow
                 ELSE IF IsTypeofObject(firstItem)
                 THEN (IF showAllItems THEN Min(maxItemsToShow, MaxCardItems) ELSE 0)
                 ELSE (IF showAllItems THEN maxItemsToShow ELSE 0)
    ELSE IF IsTypeofObject(cnt) THEN
        IF Len(cnt.fields) = 0 THEN 0 ELSE MaxExamples(Len(cnt.fields), maxL)
    ELSE 0

\* Whether iteration i of that loop raises: whether it hands formatPrimitiveValue
\* a value whose conversion to a string raises.
IterationRaises(cnt, maxL, i) ==
    IF IsArray(cnt) THEN
        LET item == cnt.items[i]
            firstItem == cnt.items[1]
        IN  IF firstItem.k \in {"str", "num"} THEN FALSE
            ELSE IF IsTypeofObject(firstItem)
            THEN /\ IsTypeofObject(item)
                 /\ Len(KeysOf(item)) > 0
                 /\ formatPrimitiveValue(ValueAt(item, KeysOf(item)[1])) = TypeError
            ELSE formatPrimitiveValue(item) = TypeError
    ELSE
        LET value == Get(cnt, ObjectKeys(cnt)[i])
        IN  /\ IsObject(value)
            /\ maxL > ExpandedAbove
            /\ Len(value.fields) <= MaxInlineKeys
            /\ \E k \in 1..Len(value.fields) :
                   formatPrimitiveValue(value.fields[k].val) = TypeError

\* The documents followed step by step: every nesting depth up to the
\* deepest, arrays up to the longest, objects up to the largest.
StepDocs ==
    Examples \cup PreviewExamples \cup Val(1)
    \cup {Chain(n, leaf) : n \in 0..MaxNesting, leaf \in {JNum(1), JArr(<<JNull>>), x1}}
    \cup {Same(r, n) : r \in {1, 2, 3, 4}, n \in {2, MaxItems, MaxArrayLen}}
    \cup {Mixed(r, MaxArrayLen) : r \in {3, 4}}
    \cup {ObjectOf(1, n) : n \in {3, MaxFields}}

StepBudgets == {-1, 1, 5, 11}

---------------------------------------------------------------------------
(* State machine *)

NotCalled == [status |-> "none"]
NotWalked == [pc |-> "before", stack |-> <<>>, visited |-> {}, emitted |-> <<>>]
NotRendered == [pc |-> "before", i |-> 0, n |-> 0]

\* The document after parseJsonToCards has run on it.  extractCards reads obj
\* (Array.isArray, obj.length, Object.keys, obj[key], JSON.stringify) and
\* stores the reference obj as a card's content; it assigns to no property of
\* obj and calls no method that changes it; cards.push grows the array that
\* parseJsonToCards allocated.
AfterExtract(jc) == jc

\* The value after a renderer that takes the first item with arr.shift().
AfterPreviewShift(cnt) ==
    IF IsArray(cnt) /\ Len(cnt.items) > 0 THEN JArr(Tail(cnt.items)) ELSE cnt

\* The value after formatJsonPreview has run on it.  The renderer reads
\* content (arr.length, arr[i], Object.keys, obj[key]); slice, substring, map
\* and join return new values, and push grows the renderer's own arrays.
AfterPreview(cnt) == cnt

\* useState(false) of isExpanded and isFlipped: a card starts collapsed and
\* displays no content.
Collapsed == [isExpanded |-> FALSE, isFlipped |-> FALSE, shown |-> "nothing", opened |-> 0]
\* The page before anything was imported: no current file (currentFileId is
\* null, written as the empty text), no query data, no selected card, the
\* editor closed, no mutation under way (pending holds the answers of the
\* server that no onSuccess or onError has handled yet), no toast; what was
\* exported last and how the last keydown was handled; and the number of
\* imports and saves made.
NotLoaded == [loaded |-> FALSE]
NoCard == [set |-> FALSE]
NothingExported == [made |-> FALSE]
NoKey == [handled |-> FALSE]
NoPage ==
    [currentFileId |-> <<>>, currentFile |-> NotLoaded, stale |-> FALSE,
     selectedCard |-> NoCard, isEditorOpen |-> FALSE, pending |-> <<>>,
     pastes |-> 0, toast |-> "none", imports |-> 0, saves |-> 0,
     exported |-> NothingExported, key |-> NoKey]

\* The server before any request.
NoResponse == [method |-> "none", status |-> 0]
PageIdle ==
    /\ component = Collapsed
    /\ editor = NoPage
    /\ store = <<>>
    /\ imported = <<>>
    /\ response = NoResponse

InitExtract ==
    /\ jsonContent \in Docs
    /\ fileName \in Labels
    /\ parsed = NotCalled
    /\ parsedAgain = NotCalled
    /\ content = JNull
    /\ maxLines = 0
    /\ preview = NotCalled
    /\ walk = NotWalked
    /\ render = NotRendered
    /\ PageIdle

\* One call of JsonParser.parseJsonToCards(jsonContent, fileName).
ParseJsonToCards ==
    /\ parsed = NotCalled
    /\ parsed' = parseJsonToCards(jsonContent, fileName)
    /\ jsonContent' = AfterExtract(jsonContent)
    /\ UNCHANGED <<fileName, parsedAgain, content, maxLines, preview, walk, render>>
    /\ UNCHANGED pageVars

NextExtract == ParseJsonToCards

SpecExtract == InitExtract /\ [][NextExtract]_vars

InitPreview ==
    /\ content \in PreviewValues
    /\ maxLines \in LineBudgets
    /\ preview = NotCalled
    /\ jsonContent = JNull
    /\ fileName = <<>>
    /\ parsed = NotCalled
    /\ parsedAgain = NotCalled
    /\ walk = NotWalked
    /\ render = NotRendered
    /\ PageIdle

\* One call of JsonParser.formatJsonPreview(content, maxLines).
FormatJsonPreview ==
    /\ preview = NotCalled
    /\ preview' = formatJsonPreview(content, maxLines)
    /\ content' = AfterPreview(content)
    /\ UNCHANGED <<jsonContent, fileName, parsed, parsedAgain, maxLines, walk, render>>
    /\ UNCHANGED pageVars

NextPreview == FormatJsonPreview

SpecPreview == InitPreview /\ [][NextPreview]_vars

\* A caller that extracts the cards of a document, extracts them once more and
\* renders the document, in any order.
InitCalls ==
    /\ jsonContent \in CallDocs
    /\ fileName \in CallLabels
    /\ parsed = NotCalled
    /\ parsedAgain = NotCalled
    /\ content = jsonContent
    /\ maxLines \in CallBudgets
    /\ preview = NotCalled
    /\ walk = NotWalked
    /\ render = NotRendered
    /\ PageIdle

\* A second call of JsonParser.parseJsonToCards(jsonContent, fileName).
ParseJsonToCardsAgain ==
    /\ parsed # NotCalled
    /\ parsedAgain = NotCalled
    /\ parsedAgain' = parseJsonToCards(jsonContent, fileName)
    /\ jsonContent' = AfterExtract(jsonContent)
    /\ UNCHANGED <<fileName, parsed, content, maxLines, preview, walk, render>>
    /\ UNCHANGED pageVars

NextCalls == ParseJsonToCards \/ ParseJsonToCardsAgain \/ FormatJsonPreview

SpecCalls == InitCalls /\ [][NextCalls]_vars

\* A caller that extracts the cards of a document and then renders it, each
\* call followed step by step.
InitSteps ==
    /\ jsonContent \in StepDocs
    /\ fileName = <<"f">>
    /\ parsed = NotCalled
    /\ parsedAgain = NotCalled
    /\ content = jsonContent
    /\ maxLines \in StepBudgets
    /\ preview = NotCalled
    /\ walk = NotWalked
    /\ render = NotRendered
    /\ PageIdle

WalkEnded == walk.pc \in {"returned", "threw"}
RenderEnded == render.pc \in {"returned", "threw"}

\* parseJsonToCards is called: a primitive root gets its card at once, any
\* other root the first call of extractCards.
ExtractCall ==
    /\ walk.pc = "before"
    /\ walk' = IF IsObject(jsonContent) \/ IsArray(jsonContent)
               THEN [walk EXCEPT !.pc = "running", !.stack = <<Frame(<<>>, 0)>>]
               ELSE [walk EXCEPT !.pc = "returned", !.emitted = << <<>> >>]
    /\ UNCHANGED <<jsonContent, fileName, parsed, parsedAgain, content, maxLines,
                   preview, render>>
    /\ UNCHANGED pageVars

\* The call of extractCards on top of the stack is entered: it returns at
\* once beyond the depth bound and on a value that is no object; it pushes
\* the card of an array and returns; it pushes the card of an object that
\* has keys and goes on to its for loop.  generateId raising ends the whole
\* call of parseJsonToCards.
ExtractEnter ==
    /\ walk.pc = "running"
    /\ walk.stack # <<>>
    /\ LET top == walk.stack[Len(walk.stack)]
           below == SubSeq(walk.stack, 1, Len(walk.stack) - 1)
           obj == ValueOf(jsonContent, top.node)
           seen == walk.visited \cup {[node |-> top.node, depth |-> top.depth]}
           pushesCard == IsArray(obj) \/ (IsObject(obj) /\ HasOwnCard(ObjectKeys(obj)))
       IN  /\ top.next = 0
           /\ walk' =
                  IF TooDeep(top.depth)
                  THEN [walk EXCEPT !.stack = below, !.visited = seen]
                  ELSE IF pushesCard /\ PathRaises(top.node)
                  THEN [walk EXCEPT !.pc = "threw", !.stack = <<>>, !.visited = seen]
                  ELSE IF IsArray(obj)
                  THEN [walk EXCEPT !.stack = below, !.visited = seen,
                                    !.emitted = Append(@, top.node)]
                  ELSE IF IsObject(obj)
                  THEN [walk EXCEPT !.stack = Append(below, [top EXCEPT !.next = 1]),
                                    !.visited = seen,
                                    !.emitted = IF pushesCard THEN Append(@, top.node)
                                                ELSE @]
                  ELSE [walk EXCEPT !.stack = below, !.visited = seen]
    /\ UNCHANGED <<jsonContent, fileName, parsed, parsedAgain, content, maxLines,
                   preview, render>>
    /\ UNCHANGED pageVars

\* One iteration of the for loop of the call on top of the stack: it calls
\* extractCards on the value of the next key when that is an object or an
\* array; after the last key the call returns.
ExtractLoop ==
    /\ walk.pc = "running"
    /\ walk.stack # <<>>
    /\ LET top == walk.stack[Len(walk.stack)]
           below == SubSeq(walk.stack, 1, Len(walk.stack) - 1)
           obj == ValueOf(jsonContent, top.node)
           keys == ObjectKeys(obj)
       IN  /\ top.next > 0
           /\ walk' =
                  IF top.next > Len(keys) THEN [walk EXCEPT !.stack = below]
                  ELSE [walk EXCEPT !.stack =
                           Append(below, [top EXCEPT !.next = @ + 1])
                           \o (IF Recurses(Get(obj, keys[top.next]))
                               THEN <<Frame(Append(top.node, keys[top.next]),
                                            top.depth + 1)>>
                               ELSE <<>>)]
    /\ UNCHANGED <<jsonContent, fileName, parsed, parsedAgain, content, maxLines,
                   preview, render>>
    /\ UNCHANGED pageVars

\* The first call of extractCards has returned: parseJsonToCards returns.
ExtractReturn ==
    /\ walk.pc = "running"
    /\ walk.stack = <<>>
    /\ walk' = [walk EXCEPT !.pc = "returned"]
    /\ UNCHANGED <<jsonContent, fileName, parsed, parsedAgain, content, maxLines,
                   preview, render>>
    /\ UNCHANGED pageVars

\* formatJsonPreview is called, after parseJsonToCards has ended.
RenderCall ==
    /\ WalkEnded
    /\ render.pc = "before"
    /\ render' = [pc |-> "running", i |-> 0, n |-> LoopBound(content, maxLines)]
    /\ UNCHANGED <<jsonContent, fileName, parsed, parsedAgain, content, maxLines,
                   preview, walk>>
    /\ UNCHANGED pageVars

\* One iteration of the for loop of the rendering; an iteration that raises
\* leads to the catch branch.
RenderLoop ==
    /\ render.pc = "running"
    /\ render.i < render.n
    /\ render' = IF IterationRaises(content, maxLines, render.i + 1)
                 THEN [render EXCEPT !.pc = "caught"]
                 ELSE [render EXCEPT !.i = @ + 1]
    /\ UNCHANGED <<jsonContent, fileName, parsed, parsedAgain, content, maxLines,
                   preview, walk>>
    /\ UNCHANGED pageVars

\* The loop is over: createStructuredPreview cuts, joins and returns.
RenderReturn ==
    /\ render.pc = "running"
    /\ ~(render.i < render.n)
    /\ render' = [render EXCEPT !.pc = "returned"]
    /\ UNCHANGED <<jsonContent, fileName, parsed, parsedAgain, content, maxLines,
                   preview, walk>>
    /\ UNCHANGED pageVars

\* The catch branch: String(content) is returned, or raises in its turn.
RenderCatch ==
    /\ render.pc = "caught"
    /\ render' = [render EXCEPT !.pc = CatchBranch(content).status]
    /\ UNCHANGED <<jsonContent, fileName, parsed, parsedAgain, content, maxLines,
                   preview, walk>>
    /\ UNCHANGED pageVars

NextSteps ==
    \/ ExtractCall
    \/ ExtractEnter
    \/ ExtractLoop
    \/ ExtractReturn
    \/ RenderCall
    \/ RenderLoop
    \/ RenderReturn
    \/ RenderCatch

SpecSteps == InitSteps /\ [][NextSteps]_vars

\* Both functions are synchronous and run on one thread: a call that has
\* been made takes its next step until it returns or raises.
SpecStepsFair == SpecSteps /\ WF_vars(NextSteps)

---------------------------------------------------------------------------
(* Properties of the card extractor *)

Returned == parsed.status = "returned"
Called == parsed # NotCalled
RootIsContainer == IsObject(jsonContent) \/ IsArray(jsonContent)
CardIndexes == IF Returned THEN 1..Len(parsed.cards) ELSE {}
Card(i) == parsed.cards[i]

Carries(card, warning) ==
    /\ "warnings" \in DOMAIN card
    /\ \E w \in 1..Len(card.warnings) : card.warnings[w] = warning

\* Number of '.' in a path: its dot-delimited segments after the leading '$'.
Segments(path) == Cardinality({i \in 1..Len(path) : path[i] = "."})

IsPrefix(p, q) == Len(p) <= Len(q) /\ SubSeq(q, 1, Len(p)) = p

RECURSIVE ContainsNull(_)
ContainsNull(v) ==
    CASE v.k = "null" -> TRUE
      [] v.k = "arr" -> \E i \in 1..Len(v.items) : ContainsNull(v.items[i])
      [] v.k = "obj" -> \E i \in 1..Len(v.fields) : ContainsNull(v.fields[i].val)
      [] OTHER -> FALSE

\* The arrays and non-empty objects reached from v through object fields only,
\* no more than 3 levels below the root, each with the keys leading to it.
RECURSIVE CardNodes(_, _, _)
CardNodes(v, node, level) ==
    IF level > 3 THEN {}
    ELSE (IF v.k = "arr" \/ (v.k = "obj" /\ Len(v.fields) > 0)
          THEN {<<node, v>>} ELSE {})
         \cup (IF v.k = "obj"
               THEN UNION {CardNodes(v.fields[i].val, Append(node, v.fields[i].key),
                                     level + 1) : i \in 1..Len(v.fields)}
               ELSE {})

\* The value the keys of node lead to from v, through object fields only
\* (NoValue when they lead nowhere or through an array).
NoValue == [k |-> "none"]

RECURSIVE Resolve(_, _)
Resolve(v, node) ==
    IF node = <<>> THEN v
    ELSE IF v.k = "obj" /\ \E i \in 1..Len(v.fields) : v.fields[i].key = node[1]
    THEN Resolve(Get(v, node[1]), Tail(node))
    ELSE NoValue

CountText(v) ==
    IF v.k = "arr" THEN <<"Array with ">> \o numToString(Len(v.items)) \o <<" items">>
    ELSE <<"Object with ">> \o numToString(Len(v.fields)) \o <<" properties">>

KindName(v) == IF v.k = "arr" THEN "array" ELSE "object"

EmptyObject == JObj(<<>>)
DeepChain ==
    Obj1(<<"a">>, Obj1(<<"b">>, Obj1(<<"c">>, Obj1(<<"d">>, Obj1(<<"e">>, JNum(1))))))

\* C2: within the result of one parseJsonToCards call no two cards have the
\* same id.
C2_IdsUnique ==
    Returned =>
        \A i, j \in CardIndexes : i # j => Card(i).id # Card(j).id

\* C3: within the result of one parseJsonToCards call no two cards have the
\* same path.
C3_PathsUnique ==
    Returned =>
        \A i, j \in CardIndexes : i # j => Card(i).path # Card(j).path

\* C4: no card's path has more than 4 dot-delimited segments after the
\* leading '$', and {a:{b:{c:{d:{e:1}}}}} gives no card at $.a.b.c.d.
C4_AtMostFourSegments ==
    Returned =>
        /\ \A i \in CardIndexes : Segments(Card(i).path) <= 4
        /\ jsonContent = DeepChain =>
               \A i \in CardIndexes :
                   Card(i).path # <<"$", ".", "a", ".", "b", ".", "c", ".", "d">>

\* C5: arrays are traversal leaves: no card's path extends an array card's
\* path by '.' and further text, and no card is reached through an array
\* (every card's keys lead to its content through object fields only).
C5_ArraysAreLeaves ==
    Returned /\ RootIsContainer =>
        /\ \A i, j \in CardIndexes :
               Card(i).type = "array" =>
                   ~(IsPrefix(Card(i).path \o <<".">>, Card(j).path)
                     /\ Len(Card(j).path) > Len(Card(i).path) + 1)
        /\ \A i \in CardIndexes : Resolve(jsonContent, Card(i).node) = Card(i).content

\* C6: for a root that is an object or an array, every array and every
\* non-empty object reachable through object fields at most 3 levels below
\* the root has exactly one card, whose content is that node, whose type is
\* the node's kind and whose description states its count.
C6_EveryNodeHasOneCard ==
    Called /\ RootIsContainer =>
        /\ Returned
        /\ \A nv \in CardNodes(jsonContent, <<>>, 0) :
               /\ Cardinality({i \in CardIndexes : Card(i).node = nv[1]}) = 1
               /\ \A i \in CardIndexes :
                      Card(i).node = nv[1] =>
                          /\ Card(i).content = nv[2]
                          /\ Card(i).type = KindName(nv[2])
                          /\ Card(i).description = CountText(nv[2])

\* C7: an object with no keys never gets a card of its own: {} gives the
\* empty sequence and {a:{}} gives exactly one card, at path '$'.
C7_EmptyObjectNoCard ==
    Called =>
        /\ (jsonContent = EmptyObject => Returned /\ parsed.cards = <<>>)
        /\ (jsonContent = Obj1(<<"a">>, EmptyObject) =>
                /\ Returned
                /\ Len(parsed.cards) = 1
                /\ Card(1).path = <<"$">>)
        /\ \A i \in CardIndexes : Card(i).content # EmptyObject

C7_Witness ==
    /\ jsonContent = Obj1(<<"a">>, EmptyObject)
    /\ Returned
    /\ Len(parsed.cards) = 1

C9_NullIsWarned ==
    \A i \in CardIndexes :
        Card(i).type \in {"object", "array"} /\ ContainsNull(Card(i).content) =>
            Carries(Card(i), "Contains null values")

\* A card whose null lies 5 levels down, below the depth bound, and a card
\* whose null is an array element.
C9_Witness ==
    /\ Returned
    /\ jsonContent =
           Obj1(<<"a">>, Obj1(<<"a">>, Obj1(<<"a">>, Obj1(<<"a">>,
               Obj1(<<"a">>, JArr(<<JNull>>))))))
    /\ Len(parsed.cards) = 4
    /\ Carries(Card(1), "Contains null values")

\* C10: a card carries the warning 'Empty array' if and only if its type is
\* array and its content has length 0.
C10_EmptyArrayWarning ==
    \A i \in CardIndexes :
        Carries(Card(i), "Empty array") <=>
            (Card(i).type = "array" /\ Card(i).content.k = "arr"
             /\ Len(Card(i).content.items) = 0)

C10_Witness ==
    /\ Returned
    /\ jsonContent = Obj1(<<"a">>, JArr(<<>>))
    /\ \E i \in CardIndexes :
           /\ Card(i).path = <<"$", ".", "a">>
           /\ Carries(Card(i), "Empty array")

\* The position of a key among the fields of an object as they were inserted.
Inserted(obj, key) ==
    CHOOSE n \in 1..Len(obj.fields) : obj.fields[n].key = key

\* Whether the nodes m and n part at their p-th key, below an object in which
\* the key towards m was inserted before the key towards n.
PartsBefore(m, n, p) ==
    /\ SubSeq(m, 1, p - 1) = SubSeq(n, 1, p - 1)
    /\ m[p] # n[p]
    /\ LET parent == Resolve(jsonContent, SubSeq(m, 1, p - 1))
       IN  Inserted(parent, m[p]) < Inserted(parent, n[p])

\* C11: the card sequence is in pre-order: a card comes before the cards of
\* the nodes nested inside its content, and the cards of an object's fields
\* (with the cards below them) come in the insertion order of the object's
\* keys.
C11_PreOrder ==
    Returned =>
        \A i, j \in CardIndexes :
            /\ (IsPrefix(Card(i).node, Card(j).node) /\ Card(i).node # Card(j).node)
                   => i < j
            /\ \A p \in 1..Min(Len(Card(i).node), Len(Card(j).node)) :
                   PartsBefore(Card(i).node, Card(j).node, p) => i < j

\* C12: for every document and every label parseJsonToCards completes and
\* returns a card sequence without raising an error.
C12_NeverRaises ==
    Called => parsed.status = "returned" /\ "cards" \in DOMAIN parsed

\* C13: when the root is a primitive and no label is supplied,
\* parseJsonToCards fails with an InvalidInput error and returns no card.
C13_NoLabelIsInvalidInput ==
    Called /\ ~RootIsContainer /\ fileName = undefined =>
        /\ parsed.status = "threw"
        /\ parsed.error = "InvalidInput"

---------------------------------------------------------------------------
(* Properties of a caller of both functions *)

CalledAgain == parsedAgain # NotCalled

Agree(c, d) ==
    /\ c.id = d.id
    /\ c.path = d.path
    /\ c.title = d.title
    /\ c.description = d.description
    /\ c.type = d.type
    /\ c.isValid = d.isValid
    /\ ("warnings" \in DOMAIN c) = ("warnings" \in DOMAIN d)
    /\ "warnings" \in DOMAIN c => c.warnings = d.warnings

TwoArraysOnePath ==
    Obj2(<<"a">>, Obj1(<<"b">>, JArr(<<>>)), <<"a", ".", "b">>, JArr(<<>>))

StepsAgreeWithCalls ==
    /\ WalkEnded =>
           LET r == parseJsonToCards(jsonContent, fileName)
           IN  /\ r.status = walk.pc
               /\ r.status = "returned" =>
                      walk.emitted = [i \in 1..Len(r.cards) |-> r.cards[i].node]
    /\ RenderEnded => formatJsonPreview(content, maxLines).status = render.pc

\* C19: on every document, whatever its nesting depth, and every line budget
\* parseJsonToCards and formatJsonPreview come to an end, and extractCards is
\* never called on a value more than 4 object fields below the root.
C19_Terminates ==
    <>(/\ WalkEnded
       /\ RenderEnded
       /\ \A call \in walk.visited : Len(call.node) <= 4)

C19_Witness ==
    /\ jsonContent = Chain(6, JArr(<<JNull>>))
    /\ walk.pc = "returned"
    /\ Len(walk.emitted) = 4
    /\ [node |-> <<<<"a">>, <<"a">>, <<"a">>, <<"a">>>>, depth |-> 4] \in walk.visited
    /\ RenderEnded

---------------------------------------------------------------------------
(* Properties of the preview renderer *)

Rendered == preview.status = "returned"
PreviewCalled == preview # NotCalled

\* C14: formatJsonPreview never raises to its caller: it always returns a
\* string, and when the structured rendering raises, that string is the plain
\* String() conversion of the value.
C14_PreviewNeverRaises ==
    PreviewCalled =>
        /\ preview.status = "returned"
        /\ createStructuredPreview(content, maxLines) = TypeError =>
               preview.text = String(content)

\* Lines of a text: the pieces between its newlines, none for the empty text.
LineCount(text) ==
    IF text = <<>> THEN 0
    ELSE 1 + Cardinality({i \in 1..Len(text) : text[i] = NL})

\* C1: for every value and every non-negative maxLines, formatJsonPreview
\* returns a string of at most maxLines lines.
C1_AtMostMaxLines ==
    Rendered /\ maxLines >= 0 => LineCount(preview.text) <= maxLines


\* Whether the structured rendering of the value ran to its end.
StructuredRendered ==
    Rendered /\ createStructuredPreview(content, maxLines) # TypeError

\* Whether a text has the entry among its lines: the entries of a preview
\* are joined by newlines.
HasEntry(text, entry) ==
    includes(<<NL>> \o text \o <<NL>>, <<NL>> \o entry \o <<NL>>)

\* Whether a line of the text starts with the label, after the indentation.
HasLabel(text, label) ==
    includes(<<NL>> \o text, <<NL, "   ">> \o label \o <<": ">>)

\* The display name the friendly-name table has for a key.
DisplayName(key) ==
    friendlyMappings[CHOOSE i \in 1..Len(friendlyMappings) :
                         friendlyMappings[i][1] = key][2]

\* The positions, in Object.keys order, of the fields of an object whose
\* lines the preview shows: the examples the mode allows, as far as they fit
\* into the line budget after the summary line.
ShownFields(obj, maxL) ==
    {i \in 1..Len(obj.fields) :
        i <= (IF maxL > ExpandedAbove THEN Len(obj.fields)
              ELSE Min(MaxCompactExamples, maxL - 2))
        /\ i + 1 <= maxL}

\* C15: for every shown field of an object whose key is in the friendly-name
\* table, the preview line is (indented) the table's display name, ': ' and
\* the formatted value, and no line has the raw key as its label;
\* formatJsonPreview({userId: 7}, 5) contains 'User ID: 7'.
C15_FriendlyLabels ==
    /\ StructuredRendered /\ IsObject(content) =>
           \A i \in ShownFields(content, maxLines) :
               LET key == ObjectKeys(content)[i]
               IN  InMappings(key) =>
                       /\ HasEntry(preview.text,
                                   <<"   ">> \o DisplayName(key) \o <<": ">>
                                   \o FieldValue(Get(content, key),
                                                 maxLines > ExpandedAbove))
                       /\ ~HasLabel(preview.text, key)
    /\ Rendered /\ content = userId7 /\ maxLines = 5 =>
           includes(preview.text,
                    <<"U", "s", "e", "r", " ", "I", "D", ": ", "7">>)

C15_Witness ==
    /\ Rendered
    /\ content = userId7
    /\ maxLines = 5
    /\ LineCount(preview.text) = 2

\* C16: for every maxLines >= 1 the preview of an empty array is exactly one
\* line, noting an empty list, and the preview of an object with no keys is
\* exactly one line, noting an empty information card.
C16_EmptyContainers ==
    PreviewCalled /\ maxLines >= 1 =>
        /\ content = JArr(<<>>) =>
               Rendered /\ preview.text = <<"U+1F4E6", " Empty list">>
        /\ content = JObj(<<>>) =>
               Rendered /\ preview.text = <<"U+1F4C2", " Empty information card">>

C16_Witness ==
    /\ content = JArr(<<>>)
    /\ maxLines = 1
    /\ Rendered
    /\ LineCount(preview.text) = 1


\* The sample item lines of a preview of an array: each starts with one of
\* these fragments, which no key and no value can contain.
SampleItemLines(text) ==
    Cardinality({i \in 1..Len(text) :
                    text[i] \in {"   Item ", "   Number ", "   Card "}})

\* Whether the last line of a text is the line.
EndsWith(text, line) ==
    /\ Len(text) >= Len(line)
    /\ SubSeq(text, Len(text) - Len(line) + 1, Len(text)) = line

\* C20: in expanded mode (maxLines > 10) the preview of a non-empty array
\* shows at most 20 sample item lines, at most 10 when the items are
\* objects, and whenever the array has more items than the preview shows
\* sample item lines, the preview ends with '(and N more items...)', N being
\* the array length minus the number of items shown.
C20_ExpandedArray ==
    StructuredRendered /\ maxLines > 10 /\ IsArray(content) /\ Len(content.items) > 0 =>
        LET shown == SampleItemLines(preview.text)
        IN  /\ shown <= 20
            /\ IsObject(content.items[1]) => shown <= 10
            /\ Len(content.items) > shown =>
                   EndsWith(preview.text,
                            <<"   (and ">> \o numToString(Len(content.items) - shown)
                            \o <<" more items...)">>)

\* The field lines of a preview of an object: each starts with the
\* indentation fragment, which no key and no value can contain (the line
\* about the remaining fields starts with a fragment of its own).
FieldLines(text) == Cardinality({i \in 1..Len(text) : text[i] = "   "})

\* C21: for every non-empty object and every maxLines >= 2, compact or
\* expanded, a preview that shows fewer field lines than the object has keys
\* ends with '... and N more pieces of information', N being the number of
\* keys minus the number of field lines shown.
C21_MoreFieldsLine ==
    StructuredRendered /\ IsObject(content) /\ Len(content.fields) > 0 /\ maxLines >= 2 =>
        LET shown == FieldLines(preview.text)
        IN  shown < Len(content.fields) =>
                EndsWith(preview.text,
                         <<"   ... and ">> \o numToString(Len(content.fields) - shown)
                         \o <<" more pieces of information">>)

\* The same for the compact budgets alone (2 <= maxLines <= 10).
CompactMoreFieldsLine ==
    StructuredRendered /\ IsObject(content) /\ Len(content.fields) > 0
    /\ maxLines >= 2 /\ maxLines <= ExpandedAbove =>
        LET shown == FieldLines(preview.text)
        IN  shown < Len(content.fields) =>
                EndsWith(preview.text,
                         <<"   ... and ">> \o numToString(Len(content.fields) - shown)
                         \o <<" more pieces of information">>)

\* The type-description lines a preview has.
TypeLines(text) ==
    {text[i] : i \in 1..Len(text)}
    \cap {" List of text values", " List of numbers",
          " List of information cards", " List of various items"}

\* The line of field names the claim gives an array whose first element is
\* an object with keys.
FieldNamesLine(first) ==
    <<"   Each card has: ">>
    \o join(slice(ObjectKeys(first), MaxKeyNames), <<", ">>)
    \o (IF Len(ObjectKeys(first)) > MaxKeyNames THEN <<"...">> ELSE <<>>)

\* C22: the type-description line of a non-empty array follows the JSON kind
\* of its first element alone: 'List of text values' for a string, 'List of
\* numbers' for a number, 'List of information cards' and up to the first 3
\* field names ('...' after them if there are more) for an object, and 'List
\* of various items' for every other kind (null, boolean, nested array).
\* Stated for budgets that leave room for the lines (maxLines >= 3).
C22_TypeLineByFirstElement ==
    StructuredRendered /\ IsArray(content) /\ Len(content.items) > 0 /\ maxLines >= 3 =>
        LET first == content.items[1]
        IN  /\ first.k = "str" => TypeLines(preview.text) = {" List of text values"}
            /\ first.k = "num" => TypeLines(preview.text) = {" List of numbers"}
            /\ IsObject(first) =>
                   /\ TypeLines(preview.text) = {" List of information cards"}
                   /\ Len(first.fields) > 0 =>
                          HasEntry(preview.text, FieldNamesLine(first))
            /\ first.k \in {"null", "bool", "arr"} =>
                   TypeLines(preview.text) = {" List of various items"}

\* The same without the nested arrays.
TypeLineByFirstElementNotArray ==
    StructuredRendered /\ IsArray(content) /\ Len(content.items) > 0 /\ maxLines >= 3 =>
        LET first == content.items[1]
        IN  /\ first.k = "str" => TypeLines(preview.text) = {" List of text values"}
            /\ first.k = "num" => TypeLines(preview.text) = {" List of numbers"}
            /\ IsObject(first) =>
                   /\ TypeLines(preview.text) = {" List of information cards"}
                   /\ Len(first.fields) > 0 =>
                          HasEntry(preview.text, FieldNamesLine(first))
            /\ first.k \in {"null", "bool"} =>
                   TypeLines(preview.text) = {" List of various items"}

\* The card-title transformation of a key taken as the final segment of a
\* path: a space before each capital letter, underscores replaced by spaces,
\* the first character upper-cased, the result trimmed.  It is what
\* pathToTitle gives for the path '$.' + key when the key has no '.'.
SegmentTitle(key) == trim(CapitalizeFirst(SpaceUnderscores(SpaceCapitals(key))))

\* C23: for every key that is no entry of the friendly-name table,
\* makeKeyFriendly returns exactly what the card-title transformation gives
\* for that key as a final path segment.  Stated of the keys of the objects
\* rendered, which makeKeyFriendly is applied to.
C23_FallbackIsTitleRule ==
    PreviewCalled /\ IsObject(content) =>
        \A i \in 1..Len(content.fields) :
            LET key == content.fields[i].key
            IN  ~InMappings(key) =>
                    /\ makeKeyFriendly(key) = SegmentTitle(key)
                    /\ "." \notin {key[j] : j \in 1..Len(key)} =>
                           makeKeyFriendly(key) = pathToTitle(<<"$", ".">> \o key)

\* The same for the keys that name no property every object inherits.
FallbackIsTitleRuleOwnNames ==
    PreviewCalled /\ IsObject(content) =>
        \A i \in 1..Len(content.fields) :
            LET key == content.fields[i].key
            IN  ~InMappings(key) /\ ~IsInherited(key) =>
                    /\ makeKeyFriendly(key) = SegmentTitle(key)
                    /\ "." \notin {key[j] : j \in 1..Len(key)} =>
                           makeKeyFriendly(key) = pathToTitle(<<"$", ".">> \o key)

---------------------------------------------------------------------------
(* Warnings of the cards *)

\* C24: a card carries the warning 'Contains null values' only if its
\* content subtree contains at least one JSON null value; a string value or
\* an object key that contains the text 'null' is not a null value.
C24_NullWarningOnlyForNull ==
    \A i \in CardIndexes :
        Carries(Card(i), "Contains null values") => ContainsNull(Card(i).content)

\* C29: every card returned for an object or array root has a warnings list
\* that is empty, exactly ['Empty array'] or exactly ['Contains null
\* values']: no card carries 'Empty object' and no card carries two warnings.
C29_WarningLists ==
    RootIsContainer =>
        \A i \in CardIndexes :
            /\ "warnings" \in DOMAIN Card(i)
            /\ Card(i).warnings \in
                   {<<>>, <<"Empty array">>, <<"Contains null values">>}

\* The document with a null in an array, an empty array and an empty object
\* beside a field: four cards, each of the three lists among them.
C29_Witness ==
    /\ Returned
    /\ jsonContent = allWarnings
    /\ Len(parsed.cards) = 4
    /\ Card(1).warnings = <<"Contains null values">>
    /\ Card(2).warnings = <<"Contains null values">>
    /\ Card(3).warnings = <<"Empty array">>
    /\ Card(4).warnings = <<>>
    /\ Card(4).path = <<"$", ".", "o">>

---------------------------------------------------------------------------
(* The JsonCard component *)

\* The line budget the component hands to formatJsonPreview.
CardPreviewLines == 8

\* The budget of a render: the component passes the same number whatever
\* isExpanded is.
PreviewBudget(isExpanded) == CardPreviewLines

\* What the content area displays after a render: nothing while the card is
\* collapsed, the raw JSON when flipped, the lines of the preview otherwise.
Displays(c) ==
    IF ~c.isExpanded THEN "nothing"
    ELSE IF c.isFlipped THEN "raw" ELSE "preview"

\* The contents of the cards that are mounted.
CardContents == PreviewValues

\* Most onClick calls (openings of the editor) followed.
MaxOpens == 2

InitCard ==
    /\ content \in CardContents
    /\ maxLines = PreviewBudget(FALSE)
    /\ preview = formatJsonPreview(content, PreviewBudget(FALSE))
    /\ component = Collapsed
    /\ jsonContent = JNull
    /\ fileName = <<>>
    /\ parsed = NotCalled
    /\ parsedAgain = NotCalled
    /\ walk = NotWalked
    /\ render = NotRendered
    /\ editor = NoPage
    /\ store = <<>>
    /\ imported = <<>>
    /\ response = NoResponse

\* The render that follows a change of the component's state.
RenderCard(c) ==
    /\ component' = [c EXCEPT !.shown = Displays(c)]
    /\ maxLines' = PreviewBudget(c.isExpanded)
    /\ preview' = formatJsonPreview(content, PreviewBudget(c.isExpanded))
    /\ UNCHANGED <<jsonContent, fileName, parsed, parsedAgain, content, walk, render>>
    /\ UNCHANGED <<editor, store, imported, response>>

\* A click on the card outside its buttons: an expanded card calls onClick
\* (the page opens the editor), a collapsed card expands.
HandleCardClick ==
    /\ component.opened < MaxOpens
    /\ IF component.isExpanded
       THEN RenderCard([component EXCEPT !.opened = @ + 1])
       ELSE RenderCard([component EXCEPT !.isExpanded = TRUE])

\* A click on the chevron button.
HandleToggleExpand ==
    LET toggled == [component EXCEPT !.isExpanded = ~component.isExpanded]
    IN  RenderCard(toggled)

\* A click on the 'Show Raw JSON' / 'Show Preview' button, which only an
\* expanded card has.
HandleFlip ==
    /\ component.isExpanded
    /\ RenderCard([component EXCEPT !.isFlipped = ~component.isFlipped])

NextCard == HandleCardClick \/ HandleToggleExpand \/ HandleFlip

SpecCard == InitCard /\ [][NextCard]_vars

\* C25: the card component requests its preview with a line budget that
\* follows its state: a compact budget (maxLines <= 10) while the card is
\* collapsed and an expanded budget (maxLines > 10) while it is expanded, so
\* that whenever an expanded card displays its preview, it is the
\* expanded-mode rendering.
C25_BudgetFollowsState ==
    /\ ~component.isExpanded => maxLines <= ExpandedAbove
    /\ component.isExpanded =>
           /\ maxLines > ExpandedAbove
           /\ component.shown = "preview" =>
                  preview = formatJsonPreview(content, maxLines)

\* The half that holds: a collapsed card asks for a compact preview.
CollapsedIsCompact == ~component.isExpanded => maxLines <= ExpandedAbove

---------------------------------------------------------------------------
(* The server: MemStorage and the routes of /api/json-files *)

\* The store is the Map jsonFiles: its entries (key, file) in insertion
\* order.  A file is a record of its properties.

\* this.jsonFiles.has(id)
Has(s, id) == \E i \in 1..Len(s) : s[i].key = id

\* this.jsonFiles.get(id) of a key the Map has
getJsonFile(s, id) == s[CHOOSE i \in 1..Len(s) : s[i].key = id].file

\* this.jsonFiles.set(id, file): a new key is added last, the value of a key
\* the Map has is replaced where it stands.
MapSet(s, id, file) ==
    IF Has(s, id)
    THEN [i \in 1..Len(s) |-> IF s[i].key = id THEN [key |-> id, file |-> file] ELSE s[i]]
    ELSE Append(s, [key |-> id, file |-> file])

\* this.jsonFiles.delete(id)
RECURSIVE MapDelete(_, _)
MapDelete(s, id) ==
    IF s = <<>> THEN <<>>
    ELSE IF s[1].key = id THEN Tail(s)
    ELSE <<s[1]>> \o MapDelete(Tail(s), id)

\* { ...a, ...b }: the properties of a, then those of b over them.
Spread(a, b) ==
    [f \in DOMAIN a \cup DOMAIN b |-> IF f \in DOMAIN b THEN b[f] ELSE a[f]]

\* createJsonFile(insertFile) with the id randomUUID() gave
createJsonFile(s, insertFile, id) == MapSet(s, id, Spread(insertFile, [id |-> id]))

\* updateJsonFile(id, updates) of a key the Map has
updateJsonFile(s, id, updates) == MapSet(s, id, Spread(getJsonFile(s, id), updates))

\* deleteJsonFile(id)
deleteJsonFile(s, id) == MapDelete(s, id)

\* The properties insertJsonFileSchema keeps (jsonFileSchema without id).
InsertFields == {"name", "content", "size", "lastModified", "cards"}

\* The properties the schema wants of a card; warnings is optional.
CardFields == {"id", "title", "description", "path", "content", "type", "isValid"}

\* Whether insertJsonFileSchema.parse accepts a body: every property is
\* there, content is a record (z.record refuses arrays, null and primitive
\* values), a card has its properties, and its title is a string (a title
\* that is undefined does not survive JSON.stringify).
ValidInsert(body) ==
    /\ InsertFields \subseteq DOMAIN body
    /\ IsObject(body.content)
    /\ \A i \in 1..Len(body.cards) :
           /\ CardFields \subseteq DOMAIN body.cards[i]
           /\ body.cards[i].title # undefined

\* What insertJsonFileSchema.parse returns: unknown properties are stripped.
Validated(body) == [f \in InsertFields |-> body[f]]

\* The requests the server is sent.  Keys stand for the values of
\* randomUUID(): a new file gets a key no stored file has.
MaxFiles == 2
FileIds == {<<"u">> \o numToString(n) : n \in 1..MaxFiles}
RequestIds == FileIds \cup {<<"x">>}

ServerDocs == {x1, JArr(<<>>)}

InsertBody(name, doc, cards) ==
    [name |-> name, content |-> doc, size |-> Len(JSONstringify(doc)),
     lastModified |-> <<"t">>, cards |-> cards]

PostBodies ==
    {InsertBody(<<"f">>, doc, <<>>) : doc \in ServerDocs}
    \cup {Spread(InsertBody(<<"f">>, x1, <<>>), [id |-> <<"m", "i", "n", "e">>]),
          [name |-> <<"f">>]}

PatchBodies ==
    {[id |-> id] : id \in RequestIds}
    \cup {[name |-> <<"g">>], [content |-> JNull], <<>>,
          [id |-> <<"x">>, name |-> <<"g">>]}

InitServer ==
    /\ store = <<>>
    /\ imported = <<>>
    /\ response = NoResponse
    /\ component = Collapsed
    /\ editor = NoPage
    /\ jsonContent = JNull
    /\ fileName = <<>>
    /\ parsed = NotCalled
    /\ parsedAgain = NotCalled
    /\ content = JNull
    /\ maxLines = 0
    /\ preview = NotCalled
    /\ walk = NotWalked
    /\ render = NotRendered

\* What the route POST /api/json-files does to the store and answers, id
\* being the value randomUUID() gives.
PostStore(s, body, id) ==
    IF ValidInsert(body) THEN createJsonFile(s, Validated(body), id) ELSE s
PostResponse(s, body, id) ==
    IF ValidInsert(body)
    THEN [method |-> "POST", id |-> id, status |-> 201,
          body |-> getJsonFile(PostStore(s, body, id), id)]
    ELSE [method |-> "POST", id |-> <<>>, status |-> 400]

\* What the route PATCH /api/json-files/:id does to the store and answers;
\* the body is not validated.
PatchStore(s, id, body) ==
    IF Has(s, id) THEN updateJsonFile(s, id, body) ELSE s
PatchResponse(s, id, body) ==
    IF Has(s, id)
    THEN [method |-> "PATCH", id |-> id, status |-> 200,
          body |-> getJsonFile(PatchStore(s, id, body), id)]
    ELSE [method |-> "PATCH", id |-> id, status |-> 404]

\* What the route GET /api/json-files/:id answers.
GetResponse(s, id) ==
    IF Has(s, id)
    THEN [method |-> "GET", id |-> id, status |-> 200, body |-> getJsonFile(s, id)]
    ELSE [method |-> "GET", id |-> id, status |-> 404]

\* The content each key was created with, after the request.
PostImported(imp, body, id) ==
    IF ValidInsert(body) THEN MapSet(imp, id, body.content) ELSE imp

\* POST /api/json-files
PostJsonFiles ==
    \E body \in PostBodies, id \in FileIds :
        /\ ValidInsert(body) => ~Has(store, id)
        /\ store' = PostStore(store, body, id)
        /\ imported' = PostImported(imported, body, id)
        /\ response' = PostResponse(store, body, id)
        /\ UNCHANGED <<component, editor>>
        /\ UNCHANGED parserVars

\* PATCH /api/json-files/:id
PatchJsonFile ==
    \E id \in RequestIds, body \in PatchBodies :
        /\ store' = PatchStore(store, id, body)
        /\ response' = PatchResponse(store, id, body)
        /\ UNCHANGED <<component, editor, imported>>
        /\ UNCHANGED parserVars

\* DELETE /api/json-files/:id
DeleteJsonFile ==
    \E id \in RequestIds :
        /\ IF Has(store, id)
           THEN /\ store' = deleteJsonFile(store, id)
                /\ response' = [method |-> "DELETE", id |-> id, status |-> 204]
           ELSE /\ response' = [method |-> "DELETE", id |-> id, status |-> 404]
                /\ UNCHANGED store
        /\ UNCHANGED <<component, editor, imported>>
        /\ UNCHANGED parserVars

\* GET /api/json-files/:id
GetJsonFile ==
    \E id \in RequestIds :
        /\ response' = GetResponse(store, id)
        /\ UNCHANGED <<component, editor, store, imported>>
        /\ UNCHANGED parserVars

\* GET /api/json-files
GetAllJsonFiles ==
    /\ response' = [method |-> "GET", id |-> <<>>, status |-> 200,
                    files |-> [i \in 1..Len(store) |-> store[i].file]]
    /\ UNCHANGED <<component, editor, store, imported>>
    /\ UNCHANGED parserVars

NextServer ==
    PostJsonFiles \/ PatchJsonFile \/ DeleteJsonFile \/ GetJsonFile \/ GetAllJsonFiles

SpecServer == InitServer /\ [][NextServer]_vars

\* C28: in every state of the store reachable by create, update (PATCH with
\* any body) and delete requests, the id of each stored file equals the key
\* it is stored under, so GET /api/json-files/:id answers 404 or a file
\* whose id is :id.
C28_IdIsKey ==
    /\ \A i \in 1..Len(store) : store[i].file.id = store[i].key
    /\ response.method = "GET" /\ response.status = 200 /\ "body" \in DOMAIN response =>
           response.body.id = response.id

\* The same when no PATCH body has an id: the state before the first such
\* request.
IdIsKeyAfterCreate ==
    response.method = "POST" /\ response.status = 201 =>
        /\ response.body.id = response.id
        /\ Has(store, response.id)
        /\ getJsonFile(store, response.id).id = response.id

---------------------------------------------------------------------------
(* The JsonEditor page *)

\* { ...value }: the own enumerable properties of the value, in the order
\* Object.keys gives them: the fields of an object, the items of an array
\* under their indices, the characters of a string under theirs, nothing of
\* any other value.
ShallowCopy(v) ==
    IF IsObject(v) \/ IsArray(v)
    THEN JObj([i \in 1..Len(KeysOf(v)) |-> Field(KeysOf(v)[i], ValueAt(v, KeysOf(v)[i]))])
    ELSE IF v.k = "str"
    THEN JObj([i \in 1..Len(v.s) |-> Field(numToString(i - 1), JStr(<<v.s[i]>>))])
    ELSE JObj(<<>>)

\* JSON.stringify(v, null, 2): each item and each field on a line of its
\* own, indented by two spaces a level; an empty array is [] and an empty
\* object {}.
RECURSIVE JSONstringifyIndented(_, _)
JSONstringifyIndented(v, level) ==
    LET inner == Repeat(" ", 2 * (level + 1))
        outer == Repeat(" ", 2 * level)
    IN  CASE v.k = "arr" /\ Len(v.items) > 0 ->
               <<"[", NL>>
               \o join([i \in 1..Len(v.items) |->
                           inner \o JSONstringifyIndented(v.items[i], level + 1)],
                       <<",", NL>>)
               \o <<NL>> \o outer \o <<"]">>
          [] v.k = "obj" /\ Len(v.fields) > 0 ->
               <<"{", NL>>
               \o join([i \in 1..Len(ObjectKeys(v)) |->
                           inner \o Quote(ObjectKeys(v)[i]) \o <<":", " ">>
                           \o JSONstringifyIndented(Get(v, ObjectKeys(v)[i]), level + 1)],
                       <<",", NL>>)
               \o <<NL>> \o outer \o <<"}">>
          [] OTHER -> JSONstringify(v)

\* updatedCards of handleCardSave: every card whose id is the id of the
\* selected card gets the content, isValid true and no warnings.
UpdatedCards(cards, selected, newContent) ==
    [i \in 1..Len(cards) |->
        IF cards[i].id = selected.id
        THEN Spread(cards[i], [content |-> newContent, isValid |-> TRUE, warnings |-> <<>>])
        ELSE cards[i]]

\* An update that puts the edited content of a card into the document:
\* in place of the document for the root card, in place of the field for a
\* card of a field of the root.
UpdatedContentMerged(fileContent, selected, newContent) ==
    IF selected.node = <<>> THEN newContent
    ELSE IF Len(selected.node) = 1
    THEN JObj([i \in 1..Len(fileContent.fields) |->
                  IF fileContent.fields[i].key = selected.node[1]
                  THEN Field(selected.node[1], newContent)
                  ELSE fileContent.fields[i]])
    ELSE ShallowCopy(fileContent)

\* updatedContent of handleCardSave: a shallow copy of the document; neither
\* the selected card nor the edited content goes into it.
UpdatedContent(fileContent, selected, newContent) == ShallowCopy(fileContent)

\* How a mutation settles: onSuccess on an answer of the 2xx range, onError
\* on any other.
Succeeded(resp) == resp.status >= 200 /\ resp.status < 300

\* The documents that are imported, the contents an edit saves, and the
\* texts a file or the clipboard holds: a JSON text (given by the document
\* JSON.parse makes of it), a text that is no JSON, a blank text.
EditorDocs ==
    {x1,
     Obj1(<<"u", "s", "e", "r">>, Obj1(<<"i", "d">>, x1)),
     Obj1(<<NonLatin1>>, JArr(<<>>)),
     JArr(<<x1, JNull>>)}
EditContents == {JArr(<<JNull>>)}
Texts ==
    {[kind |-> "json", doc |-> d] : d \in EditorDocs}
    \cup {[kind |-> "invalid"], [kind |-> "blank"]}

\* Most files imported, saves made and pastes under way in a behaviour.
MaxImports == 1
MaxSaves == 2
MaxPastes == 1

\* The file name of an import: the name of the file chosen, or
\* pasted-<Date.now()>.json.
ChosenName == <<"f", ".", "j", "s", "o", "n">>
PastedName == <<"pasted-", "0", ".json">>

\* Whether handleJsonImport gets as far as createFileMutation.mutate:
\* JSON.parse and parseJsonToCards have not raised.
Mutates(text, name) ==
    /\ text.kind = "json"
    /\ parseJsonToCards(text.doc, name).status = "returned"

\* fileData of handleJsonImport
FileData(text, name) ==
    InsertBody(name, text.doc, parseJsonToCards(text.doc, name).cards)

\* The page after handleJsonImport(text, name), id being the key the server
\* gives the file: the mutation is under way with the server's answer, or the
\* catch block has shown its toast.
AfterImport(ed, s, text, name, id) ==
    IF Mutates(text, name)
    THEN [ed EXCEPT !.imports = @ + 1,
                    !.pending =
                        Append(@, [kind |-> "create",
                                   request |-> FileData(text, name),
                                   response |-> PostResponse(s, FileData(text, name), id)])]
    ELSE [ed EXCEPT !.imports = @ + 1,
                    !.toast = "Invalid JSON content or parsing error"]

InitEditor ==
    /\ editor = NoPage
    /\ store = <<>>
    /\ imported = <<>>
    /\ response = NoResponse
    /\ component = Collapsed
    /\ jsonContent = JNull
    /\ fileName = <<>>
    /\ parsed = NotCalled
    /\ parsedAgain = NotCalled
    /\ content = JNull
    /\ maxLines = 0
    /\ preview = NotCalled
    /\ walk = NotWalked
    /\ render = NotRendered

\* handleFileSelect(file): the text of the file goes to handleJsonImport,
\* and the request of the mutation to the server.
HandleFileSelect ==
    \E text \in Texts, id \in FileIds :
        /\ editor.imports < MaxImports
        /\ Mutates(text, ChosenName) /\ ValidInsert(FileData(text, ChosenName))
               => ~Has(store, id)
        /\ editor' = AfterImport(editor, store, text, ChosenName, id)
        /\ IF Mutates(text, ChosenName)
           THEN /\ store' = PostStore(store, FileData(text, ChosenName), id)
                /\ imported' = PostImported(imported, FileData(text, ChosenName), id)
           ELSE UNCHANGED <<store, imported>>
        /\ UNCHANGED <<component, response>>
        /\ UNCHANGED parserVars

\* The create mutation settles: onSuccess makes the new file the current
\* one, whose query has no data yet; onError shows a toast.
CreateSettled ==
    /\ editor.pending # <<>>
    /\ Head(editor.pending).kind = "create"
    /\ editor' =
           IF Succeeded(Head(editor.pending).response)
           THEN [editor EXCEPT
                     !.pending = Tail(@),
                     !.currentFileId = Head(editor.pending).response.body.id,
                     !.currentFile = NotLoaded,
                     !.stale = FALSE,
                     !.toast = "JSON file imported successfully"]
           ELSE [editor EXCEPT !.pending = Tail(@),
                               !.toast = "Failed to import JSON file"]
    /\ UNCHANGED <<component, store, imported, response>>
    /\ UNCHANGED parserVars

\* The query of the current file fetches: GET /api/json-files/:id.
FetchCurrentFile ==
    /\ editor.currentFileId # <<>>
    /\ ~editor.currentFile.loaded \/ editor.stale
    /\ editor' =
           IF Succeeded(GetResponse(store, editor.currentFileId))
           THEN [editor EXCEPT
                     !.currentFile =
                         [loaded |-> TRUE,
                          data |-> GetResponse(store, editor.currentFileId).body],
                     !.stale = FALSE]
           ELSE [editor EXCEPT !.stale = FALSE]
    /\ UNCHANGED <<component, store, imported, response>>
    /\ UNCHANGED parserVars

\* handleCardClick(card) of the page: a card of the current file is
\* selected and the editor opens.  The open editor covers the cards.
SelectCard ==
    /\ editor.currentFile.loaded
    /\ ~editor.isEditorOpen
    /\ \E i \in 1..Len(editor.currentFile.data.cards) :
           editor' = [editor EXCEPT
                          !.selectedCard =
                              [set |-> TRUE, card |-> editor.currentFile.data.cards[i],
                               index |-> i, fileId |-> editor.currentFile.data.id],
                          !.isEditorOpen = TRUE]
    /\ UNCHANGED <<component, store, imported, response>>
    /\ UNCHANGED parserVars

\* handleCardSave(content), called by the open editor: without a current
\* file it returns at once; else it sends the update, closes the editor and
\* clears the selection.
HandleCardSave ==
    \E newContent \in EditContents :
        /\ editor.isEditorOpen
        /\ editor.selectedCard.set
        /\ editor.saves < MaxSaves
        /\ IF ~editor.currentFile.loaded
           THEN UNCHANGED <<editor, store>>
           ELSE LET file == editor.currentFile.data
                    updates ==
                        [cards |-> UpdatedCards(file.cards, editor.selectedCard.card,
                                                newContent),
                         content |-> UpdatedContent(file.content,
                                                    editor.selectedCard.card, newContent)]
                IN  /\ store' = PatchStore(store, file.id, updates)
                    /\ editor' =
                           [editor EXCEPT
                                !.pending =
                                    Append(@, [kind |-> "update",
                                               request |-> updates,
                                               response |->
                                                   PatchResponse(store, file.id, updates)]),
                                !.saves = @ + 1,
                                !.isEditorOpen = FALSE,
                                !.selectedCard = NoCard]
        /\ UNCHANGED <<component, imported, response>>
        /\ UNCHANGED parserVars

\* The update mutation settles: onSuccess invalidates the query of the
\* current file, which fetches again; onError shows a toast.
UpdateSettled ==
    /\ editor.pending # <<>>
    /\ Head(editor.pending).kind = "update"
    /\ editor' =
           IF Succeeded(Head(editor.pending).response)
           THEN [editor EXCEPT !.pending = Tail(@), !.stale = TRUE,
                               !.toast = "Changes saved successfully"]
           ELSE [editor EXCEPT !.pending = Tail(@),
                               !.toast = "Failed to save changes"]
    /\ UNCHANGED <<component, store, imported, response>>
    /\ UNCHANGED parserVars

\* handleExportFull(): the content of the current file, serialised, is
\* downloaded under the name of the file.
HandleExportFull ==
    /\ editor.currentFile.loaded
    /\ editor' = [editor EXCEPT
                      !.exported =
                          [made |-> TRUE, id |-> editor.currentFile.data.id,
                           text |-> JSONstringifyIndented(editor.currentFile.data.content, 0),
                           cards |-> editor.currentFile.data.cards]]
    /\ UNCHANGED <<component, store, imported, response>>
    /\ UNCHANGED parserVars

NextEditor ==
    \/ HandleFileSelect
    \/ CreateSettled
    \/ FetchCurrentFile
    \/ SelectCard
    \/ HandleCardSave
    \/ UpdateSettled
    \/ HandleExportFull

SpecEditor == InitEditor /\ [][NextEditor]_vars

\* The keydown events the document gets: the modifier keys, the key, and the
\* tag of the element the event is dispatched to (a dispatched event has a
\* target).
KeyEvents ==
    [ctrlKey : BOOLEAN, metaKey : BOOLEAN, key : {"v", "a"},
     target : {"element"}, tagName : {"INPUT", "TEXTAREA", "BODY", "DIV"}]

\* The condition of handleKeyDown, as the operators bind: && before ||, so
\* the test of the modifier and the key belongs to !e.target alone.
PasteCondition(e) ==
    \/ ((e.ctrlKey \/ e.metaKey) /\ e.key = "v" /\ e.target = "null")
    \/ (e.tagName # "INPUT" /\ e.tagName # "TEXTAREA")

\* What the clipboard gives: a text, or no permission to read it.
Clipboard == Texts \cup {[kind |-> "denied"]}

\* handleKeyDown(e): when the condition holds, the default action of the key
\* is prevented and handlePasteJson is called, which goes on once the
\* clipboard was read.
HandleKeyDown ==
    \E e \in KeyEvents :
        /\ PasteCondition(e) => editor.pastes < MaxPastes
        /\ editor' = [editor EXCEPT
                          !.key = [handled |-> TRUE, event |-> e,
                                   defaultPrevented |-> PasteCondition(e),
                                   pasteStarted |-> PasteCondition(e)],
                          !.pastes = IF PasteCondition(e) THEN @ + 1 ELSE @]
        /\ UNCHANGED <<component, store, imported, response>>
        /\ UNCHANGED parserVars

\* A click on the Paste button calls handlePasteJson.
ClickPaste ==
    /\ editor.pastes < MaxPastes
    /\ editor' = [editor EXCEPT !.pastes = @ + 1]
    /\ UNCHANGED <<component, store, imported, response>>
    /\ UNCHANGED parserVars

\* handlePasteJson() after navigator.clipboard.readText() has settled: a
\* text that is not blank goes to handleJsonImport, a refusal to the toast.
HandlePasteJson ==
    \E clip \in Clipboard, id \in FileIds :
        /\ editor.pastes > 0
        /\ clip.kind \notin {"denied", "blank"} => editor.imports < MaxImports
        /\ clip.kind \notin {"denied", "blank"}
           /\ Mutates(clip, PastedName) /\ ValidInsert(FileData(clip, PastedName))
               => ~Has(store, id)
        /\ editor' =
               IF clip.kind = "denied"
               THEN [editor EXCEPT !.pastes = @ - 1,
                                   !.toast = "Unable to read from clipboard or invalid JSON"]
               ELSE IF clip.kind = "blank"
               THEN [editor EXCEPT !.pastes = @ - 1]
               ELSE [AfterImport(editor, store, clip, PastedName, id)
                         EXCEPT !.pastes = @ - 1]
        /\ IF clip.kind \notin {"denied", "blank"} /\ Mutates(clip, PastedName)
           THEN /\ store' = PostStore(store, FileData(clip, PastedName), id)
                /\ imported' = PostImported(imported, FileData(clip, PastedName), id)
           ELSE UNCHANGED <<store, imported>>
        /\ UNCHANGED <<component, response>>
        /\ UNCHANGED parserVars

NextKeys ==
    \/ HandleKeyDown
    \/ ClickPaste
    \/ HandlePasteJson
    \/ CreateSettled
    \/ FetchCurrentFile

SpecKeys == InitEditor /\ [][NextKeys]_vars

---------------------------------------------------------------------------
(* Properties of the page *)

\* The content a stored file was created with.
ImportedContent(id) == getJsonFile(imported, id)

\* The cards extraction gave a stored file when it was imported.
ExtractedCards(id) ==
    parseJsonToCards(ImportedContent(id), getJsonFile(store, id).name).cards

\* C26: after any sequence of card saves on an imported file, the persisted
\* content of the document is still the content that was imported (as JSON
\* text: a save sends a shallow copy of it and merges no edited card into
\* it), and a full export gives the original document.
C26_SavesKeepContent ==
    /\ \A i \in 1..Len(store) :
           JSONstringify(store[i].file.content)
               = JSONstringify(ImportedContent(store[i].key))
    /\ editor.exported.made =>
           editor.exported.text
               = JSONstringifyIndented(ImportedContent(editor.exported.id), 0)

\* A file whose root card was saved with another content, fetched again and
\* exported after that: the stored cards are no longer the extracted ones.
C26_Witness ==
    /\ editor.saves > 0
    /\ editor.exported.made
    /\ Has(store, editor.exported.id)
    /\ editor.exported.cards = getJsonFile(store, editor.exported.id).cards
    /\ editor.exported.cards # ExtractedCards(editor.exported.id)
    /\ editor.exported.cards[1].content = JArr(<<JNull>>)
    /\ ImportedContent(editor.exported.id) # JArr(<<JNull>>)

\* C27: handleCardSave(content) on a file that import produced, with a card
\* of that file selected, replaces the content (and sets isValid to true and
\* warnings to empty) of exactly one card of the file, the selected card,
\* and leaves every other card as it is in the update it sends.
C27_SaveChangesOneCard ==
    [][(/\ editor.currentFile.loaded
        /\ editor.selectedCard.set
        /\ editor'.saves = editor.saves + 1
        /\ editor.selectedCard.fileId = editor.currentFile.data.id
        /\ editor.selectedCard.index <= Len(editor.currentFile.data.cards)
        /\ editor.currentFile.data.cards[editor.selectedCard.index].node
               = editor.selectedCard.card.node)
       => LET before == editor.currentFile.data.cards
              after == editor'.pending[Len(editor'.pending)].request.cards
              sel == editor.selectedCard.index
          IN  /\ Len(after) = Len(before)
              /\ \A j \in 1..Len(before) :
                     IF j = sel
                     THEN after[j] = Spread(before[j],
                                            [content |-> after[j].content,
                                             isValid |-> TRUE, warnings |-> <<>>])
                     ELSE after[j] = before[j]]_vars

\* C30: the keydown handler starts a paste import, and prevents the default
\* action of the key, only when Ctrl or Cmd is held, the key is 'v' and the
\* target is neither an INPUT nor a TEXTAREA; on every other keydown it does
\* nothing.
C30_PasteOnlyOnCtrlV ==
    editor.key.handled =>
        (editor.key.pasteStarted \/ editor.key.defaultPrevented
            => /\ editor.key.event.ctrlKey \/ editor.key.event.metaKey
               /\ editor.key.event.key = "v"
               /\ editor.key.event.tagName \notin {"INPUT", "TEXTAREA"})

\* What the handler does keep to: a keydown in an INPUT or a TEXTAREA starts
\* nothing.
NoPasteInTextFields ==
    editor.key.handled /\ editor.key.event.tagName \in {"INPUT", "TEXTAREA"} =>
        ~editor.key.pasteStarted /\ ~editor.key.defaultPrevented

=============================================================================
